---- MODULE Spec2Model ----
(***************************************************************************)
(* Model of the schematic core of kicad-mcp: the data model (models.py),   *)
(* the Librarian (librarian.py) with its provider, and the DSL emitter     *)
(* (dsl_emitter.py).                                                       *)
(*                                                                         *)
(* A Python str is a sequence of one-character strings, so that sorting,   *)
(* prefix tests and line structure are computed the way the code computes  *)
(* them.  The element "<->" stands for the single character U+2194 and     *)
(* "<bt>" for the backquote, which a TLA+ string cannot hold, and "^2" for  *)
(* U+00B2, the superscript two: a character that str.isdigit() accepts and *)
(* that neither \d nor int() does.                                         *)
(***************************************************************************)
EXTENDS Naturals, Integers, Sequences, FiniteSets, TLC

(***************************************************************************)
(* Characters and Python's str operations                                  *)
(***************************************************************************)

\* The printable ASCII characters, code points 32..126, in order.
AsciiTable ==
    << " ", "!", "\"", "#", "$", "%", "&", "'", "(", ")", "*", "+", ",", "-", ".", "/",
       "0", "1", "2", "3", "4", "5", "6", "7", "8", "9", ":", ";", "<", "=", ">", "?",
       "@", "A", "B", "C", "D", "E", "F", "G", "H", "I", "J", "K", "L", "M", "N", "O",
       "P", "Q", "R", "S", "T", "U", "V", "W", "X", "Y", "Z", "[", "\\", "]", "^", "_",
       "<bt>", "a", "b", "c", "d", "e", "f", "g", "h", "i", "j", "k", "l", "m", "n", "o",
       "p", "q", "r", "s", "t", "u", "v", "w", "x", "y", "z", "{", "|", "}", "~" >>

NL == "\n"

Arrow == "<->"

Sup2 == "^2"

CharSet == {AsciiTable[i] : i \in 1..Len(AsciiTable)} \cup {NL, Arrow, Sup2}

\* The code point of a character: what Python's str comparison orders by.
Code ==
    [c \in CharSet |->
        IF c = NL THEN 10
        ELSE IF c = Arrow THEN 8596
        ELSE IF c = Sup2 THEN 178
        ELSE 31 + (CHOOSE i \in 1..Len(AsciiTable) : AsciiTable[i] = c)]

IsDigit(c) == Code[c] >= 48 /\ Code[c] <= 57

IsUpperChar(c) == Code[c] >= 65 /\ Code[c] <= 90

IsLowerChar(c) == Code[c] >= 97 /\ Code[c] <= 122

IsAlpha(c) == IsUpperChar(c) \/ IsLowerChar(c)

UpperChar(c) == IF IsLowerChar(c) THEN AsciiTable[Code[c] - 32 - 31] ELSE c

\* str.upper()
Upper(s) == [i \in 1..Len(s) |-> UpperChar(s[i])]

DigitValue(c) == Code[c] - 48

\* str < str: lexicographic by code point, a proper prefix is smaller.
RECURSIVE StrLessFrom(_, _, _)
StrLessFrom(a, b, i) ==
    IF i > Len(a) THEN i <= Len(b)
    ELSE IF i > Len(b) THEN FALSE
    ELSE IF a[i] = b[i] THEN StrLessFrom(a, b, i + 1)
    ELSE Code[a[i]] < Code[b[i]]

StrLess(a, b) == StrLessFrom(a, b, 1)

StartsWith(s, p) == Len(p) <= Len(s) /\ SubSeq(s, 1, Len(p)) = p

EndsWith(s, p) == Len(p) <= Len(s) /\ SubSeq(s, Len(s) - Len(p) + 1, Len(s)) = p

\* sub in s
Contains(s, sub) ==
    \E i \in 0..(Len(s) - Len(sub)) : SubSeq(s, i + 1, i + Len(sub)) = sub

\* sep.join(parts)
RECURSIVE Join(_, _)
Join(parts, sep) ==
    IF parts = << >> THEN << >>
    ELSE IF Len(parts) = 1 THEN parts[1]
    ELSE parts[1] \o sep \o Join(Tail(parts), sep)

\* The lines of a text: text.split("\n").
SplitLines(text) ==
    LET breaks == {i \in 1..Len(text) : text[i] = NL}
        n == Cardinality(breaks)
        pos(k) == IF k = 0 THEN 0
                  ELSE IF k = n + 1 THEN Len(text) + 1
                  ELSE CHOOSE p \in breaks : Cardinality({q \in breaks : q <= p}) = k
    IN  [k \in 1..(n + 1) |-> SubSeq(text, pos(k - 1) + 1, pos(k) - 1)]

\* str(n) for a natural number n
RECURSIVE IntToStr(_)
IntToStr(n) ==
    IF n < 10 THEN << AsciiTable[n + 17] >>
    ELSE Append(IntToStr(n \div 10), AsciiTable[(n % 10) + 17])

\* The elements of a sequence, as a set.
Range(s) == {s[i] : i \in 1..Len(s)}

\* sorted(items, key=...) for str keys, given as <<key, item>> pairs: a
\* stable insertion sort, so that items with equal keys keep their order
\* as they do in Python.
RECURSIVE InsertSorted(_, _)
InsertSorted(sorted, x) ==
    IF sorted = << >> THEN << x >>
    ELSE IF StrLess(x[1], sorted[Len(sorted)][1])
         THEN Append(InsertSorted(SubSeq(sorted, 1, Len(sorted) - 1), x),
                     sorted[Len(sorted)])
         ELSE Append(sorted, x)

RECURSIVE SortFrom(_, _, _)
SortFrom(pairs, i, acc) ==
    IF i > Len(pairs) THEN acc
    ELSE SortFrom(pairs, i + 1, InsertSorted(acc, pairs[i]))

SortPairs(pairs) ==
    LET sorted == SortFrom(pairs, 1, << >>)
    IN  [i \in 1..Len(sorted) |-> sorted[i][2]]

\* A sort that leaves the list as it is.
SortStringsUnsorted(s) == s

\* sorted(list of str) and list.sort()
SortStrings(s) == SortPairs([i \in 1..Len(s) |-> << s[i], s[i] >>])

\* A sort of a set of str that puts the largest first.
RECURSIVE SortedSetDescending(_)
SortedSetDescending(S) ==
    IF S = {} THEN << >>
    ELSE LET m == CHOOSE x \in S : \A y \in S \ {x} : StrLess(y, x)
         IN  << m >> \o SortedSetDescending(S \ {m})

\* sorted(a set of str)
RECURSIVE SortedSet(_)
SortedSet(S) ==
    IF S = {} THEN << >>
    ELSE LET m == CHOOSE x \in S : \A y \in S \ {x} : StrLess(x, y)
         IN  << m >> \o SortedSet(S \ {m})

(***************************************************************************)
(* Data model (models.py).  A Pin is [designator, name, net], a Component  *)
(* [refdes, value, footprint, mpn, page, description, pins] and a Net      *)
(* [name, pages, members] with members a sequence of <<refdes, pin>>.      *)
(* location, properties and multipart_parent are never read by the         *)
(* Librarian or the emitter and are left out.                              *)
(***************************************************************************)

Pin(designator, name, net) == [designator |-> designator, name |-> name, net |-> net]

Component(refdes, value, footprint, mpn, page, description, pins) ==
    [refdes |-> refdes, value |-> value, footprint |-> footprint, mpn |-> mpn,
     page |-> page, description |-> description, pins |-> pins]

Net(name, pages, members) == [name |-> name, pages |-> pages, members |-> members]

\* A prefix that is the first character of the refdes when it is a letter.
AlphaPrefixFirst(s) ==
    IF s = << >> \/ ~IsAlpha(Head(s)) THEN << >> ELSE << Head(s) >>

\* The leading alphabetic run of a refdes.
RECURSIVE AlphaPrefix(_)
AlphaPrefix(s) ==
    IF s = << >> \/ ~IsAlpha(Head(s)) THEN << >>
    ELSE << Head(s) >> \o AlphaPrefix(Tail(s))

\* Component.derived_type
derived_type(c) ==
    LET prefix_upper == Upper(AlphaPrefix(c.refdes))
    IN  IF prefix_upper = <<"R">> THEN <<"R","E","S">>
        ELSE IF prefix_upper = <<"C">> THEN <<"C","A","P">>
        ELSE IF prefix_upper \in {<<"L">>, <<"F","B">>} THEN <<"I","N","D">>
        ELSE IF prefix_upper = <<"F">> THEN <<"F","U","S","E">>
        ELSE IF prefix_upper \in {<<"D">>, <<"L","E","D">>} THEN <<"D","I","O","D","E">>
        ELSE IF prefix_upper = <<"Q">> THEN <<"T","R","A","N","S","I","S","T","O","R">>
        ELSE IF prefix_upper = <<"U">> THEN <<"I","C">>
        ELSE IF prefix_upper \in {<<"J">>, <<"P">>, <<"C","N">>, <<"C","O","N","N">>} THEN <<"C","O","N","N">>
        ELSE IF prefix_upper = <<"S","W">> THEN <<"S","W","I","T","C","H">>
        ELSE IF prefix_upper \in {<<"X">>, <<"Y">>} THEN <<"O","S","C">>
        ELSE <<"A","C","T","I","V","E">>

\* The pin names that carry no meaning (models.py and dsl_emitter.py).
simple_names == {<<"1">>, <<"2">>, <<"3">>, <<"4">>, <<"A">>, <<"K">>}

\* A complexity test that looks at the pin names only.
is_complex_by_names(c) ==
    \E i \in 1..Len(c.pins) :
        c.pins[i].name # << >> /\ c.pins[i].name \notin (simple_names \cup {<< >>})

\* Component.is_complex
is_complex(c) ==
    \/ Len(c.pins) > 4
    \/ \E i \in 1..Len(c.pins) :
          c.pins[i].name # << >> /\ c.pins[i].name \notin (simple_names \cup {<< >>})

\* Component.is_passive
is_passive(c) == derived_type(c) \in {<<"R","E","S">>, <<"C","A","P">>, <<"I","N","D">>, <<"F","U","S","E">>}

\* The number of leading digits of s from position i on.
RECURSIVE DigitRun(_, _)
DigitRun(s, i) ==
    IF i <= Len(s) /\ IsDigit(s[i]) THEN 1 + DigitRun(s, i + 1) ELSE 0

\* s without one trailing newline: where "$" may match.
ChompNL(s) == IF s # << >> /\ s[Len(s)] = NL THEN SubSeq(s, 1, Len(s) - 1) ELSE s

\* ^(P?GND|VSS|VCC|VDD|VEE|VBAT)($|_.*), on the upper-cased name
PowerWordMatch(u) ==
    \E w \in {<<"G","N","D">>, <<"P","G","N","D">>, <<"V","S","S">>, <<"V","C","C">>, <<"V","D","D">>, <<"V","E","E">>, <<"V","B","A","T">>} :
        /\ StartsWith(u, w)
        /\ \/ ChompNL(u) = w
           \/ (Len(u) > Len(w) /\ u[Len(w) + 1] = "_")

\* ^(\+?(\d+\.?\d*V\d*|\d*\.?\d*V\d+)|\+?(\d+V)), on the upper-cased name:
\* re.match needs only a prefix of the name to match.
VoltageRailMatch(u) ==
    LET start == IF u # << >> /\ u[1] = "+" THEN 2 ELSE 1
        d1    == DigitRun(u, start)
        dot   == IF start + d1 <= Len(u) /\ u[start + d1] = "." THEN 1 ELSE 0
        d2    == DigitRun(u, start + d1 + dot)
        v     == start + d1 + dot + d2
    IN  /\ v <= Len(u)
        /\ u[v] = "V"
        /\ \/ d1 >= 1
           \/ (v + 1 <= Len(u) /\ IsDigit(u[v + 1]))

\* ^.*_(GND|VCC|VDD)$, on the upper-cased name
PowerSuffixMatch(u) ==
    /\ \E w \in {<<"_","G","N","D">>, <<"_","V","C","C">>, <<"_","V","D","D">>} : EndsWith(ChompNL(u), w)
    /\ NL \notin Range(ChompNL(u))

\* A globality test that looks at the name only.
is_global_by_name(net) ==
    \/ PowerWordMatch(Upper(net.name))
    \/ VoltageRailMatch(Upper(net.name))
    \/ PowerSuffixMatch(Upper(net.name))

\* Net.is_global
is_global(net) ==
    \/ PowerWordMatch(Upper(net.name))
    \/ VoltageRailMatch(Upper(net.name))
    \/ PowerSuffixMatch(Upper(net.name))
    \/ Len(net.members) > 15
    \/ Cardinality(net.pages) > 3

\* An inter-page test that passes every net with a page.
is_inter_page_any(net) == Cardinality(net.pages) > 0

\* Net.is_inter_page
is_inter_page(net) == Cardinality(net.pages) > 1

(***************************************************************************)
(* DSL emitter (dsl_emitter.py)                                            *)
(***************************************************************************)

\* int(run) for a run of digits
RECURSIVE DigitsToInt(_)
DigitsToInt(run) ==
    IF run = << >> THEN 0
    ELSE 10 * DigitsToInt(SubSeq(run, 1, Len(run) - 1)) + DigitValue(run[Len(run)])

\* re.split(r'(\d+)', text): the runs of non-digits and of digits in turn,
\* beginning and ending with a (possibly empty) run of non-digits.
RECURSIVE SplitDigitRuns(_, _, _)
SplitDigitRuns(text, i, cur) ==
    IF i > Len(text) THEN << cur >>
    ELSE IF IsDigit(text[i])
         THEN LET n == DigitRun(text, i)
              IN  << cur, SubSeq(text, i, i + n - 1) >> \o SplitDigitRuns(text, i + n, << >>)
         ELSE SplitDigitRuns(text, i + 1, Append(cur, text[i]))

\* str.isdigit(): not empty, and every character a digit of some kind.
str_isdigit(s) == s # << >> /\ \A j \in 1..Len(s) : IsDigit(s[j]) \/ s[j] = Sup2

\* atoi of _natural_sort_key: int(text) if text.isdigit() else text.  int()
\* raises ValueError on a character that is not a decimal digit.
atoi(text) ==
    IF str_isdigit(text)
    THEN IF \A j \in 1..Len(text) : IsDigit(text[j])
         THEN [isint |-> TRUE, int |-> DigitsToInt(text), str |-> << >>, raises |-> FALSE]
         ELSE [isint |-> TRUE, int |-> 0, str |-> text, raises |-> TRUE]
    ELSE [isint |-> FALSE, int |-> 0, str |-> text, raises |-> FALSE]

\* _natural_sort_key: atoi of each piece; the digit runs (every second piece)
\* become integers.
_natural_sort_key(text) ==
    LET parts == SplitDigitRuns(text, 1, << >>)
    IN  [i \in 1..Len(parts) |-> atoi(parts[i])]

\* Whether _natural_sort_key(text) raises.
KeyRaises(text) ==
    \E i \in 1..Len(_natural_sort_key(text)) : _natural_sort_key(text)[i].raises

\* What a call returns when ValueError leaves it.
ValueError == << "ValueError" >>

\* Python's tuple comparison of two natural-sort keys.  The pieces at one
\* position are both str or both int, because every key alternates them
\* beginning with a str.
RECURSIVE KeyLessFrom(_, _, _)
KeyLessFrom(a, b, i) ==
    IF i > Len(a) THEN i <= Len(b)
    ELSE IF i > Len(b) THEN FALSE
    ELSE IF a[i] = b[i] THEN KeyLessFrom(a, b, i + 1)
    ELSE IF a[i].isint THEN a[i].int < b[i].int
    ELSE StrLess(a[i].str, b[i].str)

KeyLess(a, b) == KeyLessFrom(a, b, 1)

RECURSIVE InsertPin(_, _)
InsertPin(sorted, pin) ==
    IF sorted = << >> THEN << pin >>
    ELSE IF KeyLess(_natural_sort_key(pin.designator),
                    _natural_sort_key(sorted[Len(sorted)].designator))
         THEN Append(InsertPin(SubSeq(sorted, 1, Len(sorted) - 1), pin), sorted[Len(sorted)])
         ELSE Append(sorted, pin)

RECURSIVE SortPinsFrom(_, _, _)
SortPinsFrom(pins, i, acc) ==
    IF i > Len(pins) THEN acc
    ELSE SortPinsFrom(pins, i + 1, InsertPin(acc, pins[i]))

\* sorted(component.pins, key=lambda p: _natural_sort_key(p.designator))
SortPins(pins) == SortPinsFrom(pins, 1, << >>)

\* A sort of components that leaves the list as it is.
SortComponentsUnsorted(components) == components

\* sorted(components, key=lambda c: c.refdes)
SortComponents(components) ==
    SortPairs([i \in 1..Len(components) |-> << components[i].refdes, components[i] >>])

\* sorted(nets, key=lambda n: n.name)
SortNets(nets) == SortPairs([i \in 1..Len(nets) |-> << nets[i].name, nets[i] >>])

\* The least index of a set of indices, 0 when there is none: where a
\* "for ... if ...: break" search stops.
FirstIndex(S) == IF S = {} THEN 0 ELSE CHOOSE i \in S : \A j \in S : i <= j

\* _format_component_block
_format_component_block(component) ==
    IF \E i \in 1..Len(component.pins) : KeyRaises(component.pins[i].designator)
    THEN ValueError
    ELSE
    LET def_line == IF component.description # << >>
                    THEN <<"D","E","F"," ">> \o derived_type(component) \o <<" ">> \o component.description
                    ELSE <<"D","E","F"," ">> \o derived_type(component)
        comp_line == <<"C","O","M","P"," ">> \o component.refdes \o <<" ","(">> \o component.value \o <<")">>
        mpn_lines == IF component.mpn # << >>
                     THEN << <<" "," ","M","P","N",":"," ">> \o component.mpn >> ELSE << >>
        fp_lines == IF component.footprint # << >>
                    THEN << <<" "," ","F","P",":"," ">> \o component.footprint >> ELSE << >>
        sorted_pins == SortPins(component.pins)
        pin_lines == IF component.pins # << >>
                     THEN << <<" "," ","P","I","N","S",":">> >> \o
                          [i \in 1..Len(sorted_pins) |->
                              IF sorted_pins[i].name # << >>
                              THEN <<" "," "," "," ">> \o sorted_pins[i].designator \o <<":"," ">>
                                       \o sorted_pins[i].name
                              ELSE <<" "," "," "," ">> \o sorted_pins[i].designator \o <<":">>]
                     ELSE << >>
    IN  Join(<< def_line, comp_line >> \o mpn_lines \o fp_lines \o pin_lines, << NL >>)

\* _format_pin_reference
_format_pin_reference(refdes, pin_designator, components) ==
    LET ci == FirstIndex({i \in 1..Len(components) : components[i].refdes = refdes})
        simple == refdes \o <<".">> \o pin_designator
    IN  IF ci = 0 THEN simple
        ELSE LET pins == components[ci].pins
                 pi == FirstIndex({i \in 1..Len(pins) : pins[i].designator = pin_designator})
             IN  IF pi = 0 \/ pins[pi].name = << >> THEN simple
                 ELSE IF pins[pi].name \in simple_names THEN simple
                 ELSE refdes \o <<".">> \o pin_designator \o <<"(">> \o pins[pi].name \o <<")">>

\* The most pin references shown for a global net.
MaxGlobalRefs == 10

\* _format_net_block
_format_net_block(net, net_pages, components) ==
    LET isglobal == is_global(net)
        isinterpage == Cardinality(net_pages) > 1
        links == IF isglobal THEN << <<" "," ","L","I","N","K","S",":"," ","A","L","L","_","P","A","G","E","S">> >>
                 ELSE IF isinterpage
                      THEN << <<" "," ","L","I","N","K","S",":"," ">> \o Join(SortedSet(net_pages), <<","," ">>) >>
                      ELSE << >>
        pin_refs == SortStrings([i \in 1..Len(net.members) |->
                        _format_pin_reference(net.members[i][1], net.members[i][2],
                                              components)])
        con_str == IF isglobal /\ Len(pin_refs) > MaxGlobalRefs
                   THEN Join(SubSeq(pin_refs, 1, MaxGlobalRefs), <<","," ">>)
                        \o <<" ","(","+"," ">> \o IntToStr(Len(pin_refs) - MaxGlobalRefs) \o <<" ","o","t","h","e","r","s",")">>
                   ELSE Join(pin_refs, <<","," ">>)
    IN  Join(<< <<"N","E","T"," ">> \o net.name >> \o links \o << <<" "," ","C","O","N",":"," ">> \o con_str >>, << NL >>)

\* _format_neighbor_summary
_format_neighbor_summary(component) ==
    IF component.description # << >>
    THEN component.refdes \o <<" ","(">> \o component.value \o <<")"," ","-"," ">> \o component.description
    ELSE component.refdes \o <<" ","(">> \o component.value \o <<")">>

\* An Atlas lookup that finds nothing.
AtlasGetEmpty(net_page_map, name) == {}

\* net_page_map.get(name, set())
AtlasGet(net_page_map, name) ==
    IF name \in DOMAIN net_page_map THEN net_page_map[name] ELSE {}

\* emit_page_dsl
emit_page_dsl(components, nets, net_page_map) ==
    IF components = << >> THEN <<"#"," ","N","o"," ","c","o","m","p","o","n","e","n","t","s"," ","o","n"," ","t","h","i","s"," ","p","a","g","e",NL>>
    ELSE
    LET page_name == components[1].page
        sorted_components == SortComponents(components)
        sorted_nets == SortNets(nets)
        complex_components == SelectSeq(sorted_components, is_complex)
        comp_lines == IF complex_components = << >>
                      THEN << <<"(","A","l","l"," ","c","o","m","p","o","n","e","n","t","s"," ","a","r","e"," ","s","i","m","p","l","e"," ","p","a","s","s","i","v","e","s"," ","-"," ","s","e","e"," ","N","E","T","S"," ","s","e","c","t","i","o","n",")">> >>
                      ELSE [i \in 1..Len(complex_components) |->
                               _format_component_block(complex_components[i])]
        net_lines == [i \in 1..Len(sorted_nets) |->
                         _format_net_block(sorted_nets[i],
                                           AtlasGet(net_page_map, sorted_nets[i].name),
                                           sorted_components)]
    IN  IF ValueError \in Range(comp_lines) THEN ValueError ELSE
        Join(<< <<"#"," ","P","A","G","E",":"," ">> \o page_name, << >>, <<"#"," ","C","O","M","P","O","N","E","N","T","S">> >> \o comp_lines
             \o << << >>, <<"#"," ","N","E","T","S">> >> \o net_lines, << NL >>)

\* emit_context_dsl
emit_context_dsl(primary_components, neighbor_components, nets) ==
    IF primary_components = << >> THEN <<"#"," ","N","o"," ","c","o","m","p","o","n","e","n","t","s"," ","i","n"," ","c","o","n","t","e","x","t",NL>>
    ELSE
    LET sorted_primary == SortComponents(primary_components)
        sorted_neighbors == SortComponents(neighbor_components)
        sorted_nets == SortNets(nets)
        primary_refdes == Join([i \in 1..Len(sorted_primary) |-> sorted_primary[i].refdes],
                               <<","," ">>)
        complex_primary == SelectSeq(sorted_primary, is_complex)
        comp_lines == [i \in 1..Len(complex_primary) |->
                          _format_component_block(complex_primary[i])]
        neighbor_lines == IF sorted_neighbors # << >>
                          THEN << <<"#"," ","C","O","N","T","E","X","T","_","N","E","I","G","H","B","O","R","S">> >>
                               \o [i \in 1..Len(sorted_neighbors) |->
                                      _format_neighbor_summary(sorted_neighbors[i])]
                               \o << << >> >>
                          ELSE << >>
        all_components == sorted_primary \o sorted_neighbors
        net_lines == [i \in 1..Len(sorted_nets) |->
                         _format_net_block(sorted_nets[i], sorted_nets[i].pages,
                                           all_components)]
    IN  IF ValueError \in Range(comp_lines) THEN ValueError ELSE
        Join(<< <<"#"," ","C","O","N","T","E","X","T",":"," ">> \o primary_refdes, << >>, <<"#"," ","C","O","M","P","O","N","E","N","T","S">> >> \o comp_lines
             \o << << >> >> \o neighbor_lines \o << <<"#"," ","N","E","T","S">> >> \o net_lines, << NL >>)

(***************************************************************************)
(* Librarian (librarian.py): what each query computes from the cache,      *)
(* after its call of refresh()                                             *)
(***************************************************************************)

\* A get_index without the case for the empty schematic: it writes its two
\* sections, both empty.
get_index_body_sections(components, nets) ==
    <<"#"," ","S","C","H","E","M","A","T","I","C"," ","I","N","D","E","X">> \o << NL, NL >> \o <<"#","#"," ","P","a","g","e","s">> \o << NL >> \o <<"(","N","o"," ","p","a","g","e","s"," ","f","o","u","n","d",")">>
    \o << NL, NL >> \o <<"#","#"," ","I","n","t","e","r","-","P","a","g","e"," ","S","i","g","n","a","l","s">> \o << NL >> \o <<"(","N","o"," ","i","n","t","e","r","-","p","a","g","e"," ","s","i","g","n","a","l","s",")">>

\* Librarian.get_index, lines 116-176
get_index_body(components, nets) ==
    IF components = << >> /\ nets = << >>
    THEN <<"#"," ","S","C","H","E","M","A","T","I","C"," ","I","N","D","E","X",NL,NL,"(","E","m","p","t","y"," ","s","c","h","e","m","a","t","i","c"," ","-"," ","n","o"," ","c","o","m","p","o","n","e","n","t","s"," ","o","r"," ","n","e","t","s",")",NL>>
    ELSE
    LET page_component_count(page) ==
            Cardinality({i \in 1..Len(components) : components[i].page = page})
        page_net_count(page) ==
            Cardinality({i \in 1..Len(nets) : page \in nets[i].pages})
        all_pages == {components[i].page : i \in 1..Len(components)}
                     \cup UNION {nets[i].pages : i \in 1..Len(nets)}
        sorted_pages == SortedSet(all_pages)
        page_lines == IF all_pages = {} THEN << <<"(","N","o"," ","p","a","g","e","s"," ","f","o","u","n","d",")">> >>
                      ELSE [i \in 1..Len(sorted_pages) |->
                               <<"-"," ">> \o sorted_pages[i] \o <<" ","(">>
                               \o IntToStr(page_component_count(sorted_pages[i]))
                               \o <<" ","c","o","m","p","o","n","e","n","t","s",","," ">>
                               \o IntToStr(page_net_count(sorted_pages[i])) \o <<" ","n","e","t","s",")">>]
        inter_page_nets == SortNets(SelectSeq(nets, is_inter_page))
        signal_line(net) ==
            IF is_global(net)
            THEN IF Contains(Upper(net.name), <<"G","N","D">>) \/ Contains(Upper(net.name), <<"V","S","S">>)
                 THEN <<"-"," ">> \o net.name \o <<":"," ","A","L","L","_","P","A","G","E","S"," ","(","G","r","o","u","n","d",")">>
                 ELSE <<"-"," ">> \o net.name \o <<":"," ","A","L","L","_","P","A","G","E","S"," ","(","P","o","w","e","r"," ","R","a","i","l",")">>
            ELSE <<"-"," ">> \o net.name \o <<":"," ">> \o Join(SortedSet(net.pages), <<" ",Arrow," ">>)
        signal_lines == IF inter_page_nets = << >> THEN << <<"(","N","o"," ","i","n","t","e","r","-","p","a","g","e"," ","s","i","g","n","a","l","s",")">> >>
                        ELSE [i \in 1..Len(inter_page_nets) |-> signal_line(inter_page_nets[i])]
    IN  Join(<< <<"#"," ","S","C","H","E","M","A","T","I","C"," ","I","N","D","E","X">>, << >>, <<"#","#"," ","P","a","g","e","s">> >> \o page_lines
             \o << << >>, <<"#","#"," ","I","n","t","e","r","-","P","a","g","e"," ","S","i","g","n","a","l","s">> >> \o signal_lines, << NL >>)

\* Whether a net has a member whose refdes is in the set.
HasMemberIn(net, refdes_set) ==
    \E i \in 1..Len(net.members) : net.members[i][1] \in refdes_set

\* A page filter that keeps every component.
page_components_of_all(components, page_name) == components

\* Librarian.get_page, lines 195-203: the components of the page.
page_components_of(components, page_name) ==
    LET on_page(c) == c.page = page_name
    IN  SelectSeq(components, on_page)

\* Librarian.get_page, lines 208-219: the nets with a member on the page.
page_nets_of(nets, page_components) ==
    LET page_component_refdes == {page_components[i].refdes : i \in 1..Len(page_components)}
        has_connection_on_page(net) == HasMemberIn(net, page_component_refdes)
    IN  SelectSeq(nets, has_connection_on_page)

\* A get_page without the test for an unknown page.
get_page_body_unchecked(components, nets, net_page_map, page_name) ==
    emit_page_dsl(page_components_of(components, page_name),
                  page_nets_of(nets, page_components_of(components, page_name)),
                  net_page_map)

\* Librarian.get_page, lines 195-222
get_page_body(components, nets, net_page_map, page_name) ==
    LET page_components == page_components_of(components, page_name)
        page_exists == \E i \in 1..Len(nets) : page_name \in nets[i].pages
    IN  IF page_components = << >> /\ ~page_exists
        THEN <<"#"," ","P","A","G","E",":"," ">> \o page_name \o <<NL,NL,"(","P","a","g","e"," ","n","o","t"," ","f","o","u","n","d"," ","i","n"," ","s","c","h","e","m","a","t","i","c",")",NL>>
        ELSE emit_page_dsl(page_components, page_nets_of(nets, page_components),
                           net_page_map)

\* Librarian.get_context, line 261
primary_components_of(components, refdes_list) ==
    LET requested(c) == c.refdes \in Range(refdes_list)
    IN  SelectSeq(components, requested)

\* A get_context that takes every cached net as connected.
connected_nets_of_all(nets, primary_components) == nets

\* Librarian.get_context, lines 268-279
connected_nets_of(nets, primary_components) ==
    LET primary_refdes_set == {primary_components[i].refdes : i \in 1..Len(primary_components)}
        has_primary(net) == HasMemberIn(net, primary_refdes_set)
    IN  SelectSeq(nets, has_primary)

\* A neighbor set that is always empty.
neighbor_refdes_set_of_none(connected_nets, primary_components) == {}

\* Librarian.get_context, lines 281-288
neighbor_refdes_set_of(connected_nets, primary_components) ==
    LET primary_refdes_set == {primary_components[i].refdes : i \in 1..Len(primary_components)}
    IN  UNION {{connected_nets[n].members[i][1] : i \in 1..Len(connected_nets[n].members)}
                  : n \in 1..Len(connected_nets)} \ primary_refdes_set

\* A neighbor list that keeps the passive neighbors.
neighbor_components_with_passives(components, neighbor_refdes_set) ==
    LET is_neighbor(c) == c.refdes \in neighbor_refdes_set
    IN  SelectSeq(components, is_neighbor)

\* Librarian.get_context, lines 290-295: the neighbors given to the emitter.
neighbor_components_of(components, neighbor_refdes_set) ==
    LET active_neighbor(c) == c.refdes \in neighbor_refdes_set /\ ~is_passive(c)
    IN  SelectSeq(components, active_neighbor)

\* Librarian.get_context, lines 300-319: the context-local view of a net.
context_net_of(net, context_refdes) ==
    LET in_context(m) == m[1] \in context_refdes
    IN  Net(net.name, net.pages, SelectSeq(net.members, in_context))

\* Librarian.get_context, lines 256-326
get_context_body(components, nets, refdes_list) ==
    IF refdes_list = << >>
    THEN <<"#"," ","C","O","N","T","E","X","T",":"," ","(","e","m","p","t","y",")",NL,NL,"(","N","o"," ","c","o","m","p","o","n","e","n","t","s"," ","s","p","e","c","i","f","i","e","d"," ","f","o","r"," ","c","o","n","t","e","x","t",")",NL>>
    ELSE
    LET primary_components == primary_components_of(components, refdes_list)
    IN  IF primary_components = << >>
        THEN <<"#"," ","C","O","N","T","E","X","T",":"," ">> \o Join(refdes_list, <<","," ">>) \o <<NL,NL,"(","C","o","m","p","o","n","e","n","t","s"," ","n","o","t"," ","f","o","u","n","d"," ","i","n"," ","s","c","h","e","m","a","t","i","c",")",NL>>
        ELSE
        LET connected_nets == connected_nets_of(nets, primary_components)
            neighbor_refdes_set == neighbor_refdes_set_of(connected_nets, primary_components)
            context_refdes == {primary_components[i].refdes : i \in 1..Len(primary_components)}
                              \cup neighbor_refdes_set
            context_nets == [i \in 1..Len(connected_nets) |->
                                context_net_of(connected_nets[i], context_refdes)]
        IN  emit_context_dsl(primary_components,
                             neighbor_components_of(components, neighbor_refdes_set),
                             context_nets)

\* Librarian.get_all_pages, lines 350-360
get_all_pages_body(components, nets) ==
    SortedSet({components[i].page : i \in 1..Len(components)}
              \cup UNION {nets[i].pages : i \in 1..Len(nets)})

\* Librarian.get_component, lines 378-382: << >> is None.
get_component_body(components, refdes) ==
    LET i == FirstIndex({j \in 1..Len(components) : components[j].refdes = refdes})
    IN  IF i = 0 THEN << >> ELSE << components[i] >>

\* Librarian.get_net, lines 400-404: << >> is None.
get_net_body(nets, net_name) ==
    LET i == FirstIndex({j \in 1..Len(nets) : nets[j].name = net_name})
    IN  IF i = 0 THEN << >> ELSE << nets[i] >>

\* Librarian.get_stats, lines 423-431
get_stats_body(components, nets) ==
    [total_components |-> Len(components),
     total_nets |-> Len(nets),
     total_pages |-> Len(get_all_pages_body(components, nets)),
     inter_page_nets |-> Cardinality({i \in 1..Len(nets) : is_inter_page(nets[i])}),
     global_nets |-> Cardinality({i \in 1..Len(nets) : is_global(nets[i])})]

(***************************************************************************)
(* The schematics a provider can read.  Components and nets are listed in  *)
(* an order that is not sorted, as a provider may return them.             *)
(***************************************************************************)

pgA == <<"A">>

pgB == <<"B">>

pgC == <<"C">>

pgZ == <<"Z">>

rU1 == <<"U","1">>

rU2 == <<"U","2">>

rR1 == <<"R","1">>

rJ1 == <<"J","1">>

rC1 == <<"C","1">>

rD1 == <<"D","1">>

rZ9 == <<"Z","9">>

nGND == <<"G","N","D">>

n3V3 == <<"3","V","3">>

nTX == <<"T","X">>

nTXB == <<"T","X","B">>

nN3 == <<"N","3">>

pgD == <<"D">>

rTP1 == <<"T","P","1">>

nCLK == <<"C","L","K">>

nVss == <<"v","s","s">>

nAGND == <<"A","G","N","D">>

nSENSE == <<"S","E","N","S","E">>

nVBAT == <<"V","B","A","T">>

\* A two-page design with a third page, C, that only a net names.
Sch1 ==
    [components |-> <<
        Component(rU2, <<"L","D","O">>, <<"S","O","T">>, << >>, pgB, <<"R","e","g","u","l","a","t","o","r">>,
                  << Pin(<<"1">>, <<"G","N","D">>, nGND), Pin(<<"2">>, <<"O","U","T">>, n3V3), Pin(<<"3">>, <<"E","N">>, nN3) >>),
        Component(rR1, <<"2","2","0">>, <<"0","6","0","3">>, <<"R","C","2","2","0">>, pgA, << >>,
                  << Pin(<<"1">>, << >>, nTX), Pin(<<"2">>, << >>, nTXB) >>),
        Component(rU1, <<"M","C","U">>, <<"Q","F","P">>, <<"S","T","M","3","2">>, pgA, <<"A","R","M"," ","M","C","U">>,
                  << Pin(<<"1","0">>, <<"V","S","S">>, nGND), Pin(<<"2">>, <<"T","X">>, nTX), Pin(<<"1">>, <<"V","D","D">>, n3V3) >>),
        Component(rJ1, <<"H","D","R">>, << >>, << >>, pgB, << >>,
                  << Pin(<<"1">>, << >>, nTXB), Pin(<<"2">>, << >>, nGND) >>),
        Component(rC1, <<"1","u">>, <<"0","6","0","3">>, << >>, pgB, << >>,
                  << Pin(<<"1">>, << >>, nN3), Pin(<<"2">>, << >>, nGND) >>) >>,
     nets |-> <<
        Net(nTXB, {pgA, pgB}, << <<rR1, <<"2">>>>, <<rJ1, <<"1">>>> >>),
        Net(nGND, {pgA, pgB}, << <<rU2, <<"1">>>>, <<rU1, <<"1","0">>>>, <<rJ1, <<"2">>>>, <<rC1, <<"2">>>> >>),
        Net(n3V3, {pgA, pgB}, << <<rU2, <<"2">>>>, <<rU1, <<"1">>>> >>),
        Net(nTX, {pgA}, << <<rR1, <<"1">>>>, <<rU1, <<"2">>>> >>),
        Net(nN3, {pgB, pgC}, << <<rU2, <<"3">>>>, <<rC1, <<"1">>>> >>) >>]

\* The design after an edit: U2 and the net TXB are gone, a diode is added,
\* TX now runs to the connector, and R1 and C1 hang on a net of their own.
Sch2 ==
    [components |-> <<
        Component(rJ1, <<"H","D","R">>, << >>, << >>, pgB, << >>,
                  << Pin(<<"1">>, << >>, nTX), Pin(<<"2">>, << >>, nGND) >>),
        Component(rU1, <<"M","C","U">>, <<"Q","F","P">>, <<"S","T","M","3","2">>, pgA, <<"A","R","M"," ","M","C","U">>,
                  << Pin(<<"1","0">>, <<"V","S","S">>, nGND), Pin(<<"2">>, <<"T","X">>, nTX), Pin(<<"1">>, <<"V","D","D">>, n3V3) >>),
        Component(rR1, <<"2","2","0">>, <<"0","6","0","3">>, <<"R","C","2","2","0">>, pgA, << >>,
                  << Pin(<<"1">>, << >>, nN3), Pin(<<"2">>, << >>, nN3) >>),
        Component(rD1, <<"L","E","D">>, << >>, << >>, pgA, << >>,
                  << Pin(<<"A">>, <<"A">>, n3V3), Pin(<<"K">>, <<"K">>, nGND) >>),
        Component(rC1, <<"1","u">>, <<"0","6","0","3">>, << >>, pgA, << >>,
                  << Pin(<<"1">>, << >>, nN3), Pin(<<"2">>, << >>, <<"N","C">>) >>) >>,
     nets |-> <<
        Net(nTX, {pgA, pgB}, << <<rU1, <<"2">>>>, <<rJ1, <<"1">>>> >>),
        Net(nN3, {pgA}, << <<rR1, <<"1">>>>, <<rR1, <<"2">>>>, <<rC1, <<"1">>>> >>),
        Net(nGND, {pgA, pgB}, << <<rJ1, <<"2">>>>, <<rU1, <<"1","0">>>>, <<rD1, <<"K">>>> >>),
        Net(n3V3, {pgA}, << <<rU1, <<"1">>>>, <<rD1, <<"A">>>> >>) >>]

\* The empty schematic.
Sch3 == [components |-> << >>, nets |-> << >>]

\* A design whose nets try the naming rules: CLK is on four pages, vss is a
\* ground name in lower case, AGND contains GND without being a power name,
\* VBAT is a power name on one page; the capacitor C1 has named pins and the
\* test point TP1 is a net member that no component stands for.
Sch4 ==
    [components |-> <<
        Component(rJ1, <<"H","D","R">>, << >>, << >>, pgB, <<"H","e","a","d","e","r">>,
                  << Pin(<<"1">>, <<"C","L","K">>, nCLK), Pin(<<"2">>, << >>, nVss), Pin(<<"3">>, <<"3">>, nVBAT) >>),
        Component(rC1, <<"1","0","u">>, <<"1","2","0","6">>, << >>, pgB, << >>,
                  << Pin(<<"1">>, <<"P">>, nSENSE), Pin(<<"2">>, <<"N">>, nAGND) >>),
        Component(rU1, <<"A","D","C">>, <<"S","O","I","C">>, << >>, pgA, << >>,
                  << Pin(<<"1">>, <<"C","L","K">>, nCLK), Pin(<<"2">>, <<"V","S","S">>, nVss), Pin(<<"3">>, <<"A","G","N","D">>, nAGND),
                     Pin(<<"4">>, <<"I","N">>, nSENSE) >>) >>,
     nets |-> <<
        Net(nVss, {pgA, pgB}, << <<rU1, <<"2">>>>, <<rJ1, <<"2">>>> >>),
        Net(nSENSE, {pgA, pgB}, << <<rU1, <<"4">>>>, <<rC1, <<"1">>>> >>),
        Net(nCLK, {pgA, pgB, pgC, pgD}, << <<rU1, <<"1">>>>, <<rTP1, <<"1">>>>, <<rJ1, <<"1">>>> >>),
        Net(nVBAT, {pgB}, << <<rJ1, <<"3">>>> >>),
        Net(nAGND, {pgA, pgB}, << <<rU1, <<"3">>>>, <<rC1, <<"2">>>> >>) >>]

Schematics == << Sch1, Sch2, Sch3 >>

\* list(reversed(s))
Reverse(s) == [i \in 1..Len(s) |-> s[Len(s) + 1 - i]]

\* The same design as a provider may also list it: the components, the nets
\* and the members of each net in the opposite order.
Reversed(design) ==
    [components |-> Reverse(design.components),
     nets |-> [i \in 1..Len(design.nets) |->
                  Net(Reverse(design.nets)[i].name, Reverse(design.nets)[i].pages,
                      Reverse(Reverse(design.nets)[i].members))]]

\* The designs a Librarian is queried on: the schematics above, one more, and
\* each non-empty one in the opposite order.
Designs == Schematics \o << Sch4, Reversed(Sch1), Reversed(Sch2), Reversed(Sch4) >>

\* The arguments the queries are called with.
PageArgs == {pgA, pgB, pgC, pgZ}

RefdesListArgs == {<< >>, << rR1 >>, << rU1, rR1 >>, << rJ1 >>, << rZ9, rC1 >>, << rZ9 >>}

RefdesArgs == {rU1, rZ9}

NetNameArgs == {nGND, nN3}

\* The most calls of fetch_raw_data in one behaviour.
MaxFetch == 3

(***************************************************************************)
(* State                                                                   *)
(***************************************************************************)

VARIABLES
    source,        \* which schematic the provider's source holds now
    provider,      \* the provider: the snapshot it fetched (0: none), its fetch calls
    dirty,         \* Librarian.dirty
    components,    \* Librarian.components
    nets,          \* Librarian.nets
    net_page_map,  \* Librarian.net_page_map, the Atlas
    last,          \* the last call: its name, argument, outcome and result, whether
                   \* dirty was set before it, the fetches it made, and the snapshot
                   \* the provider held before it
    hist           \* history: mark_dirty calls, dirty-to-clean transitions, failed refreshes

vars == << source, provider, dirty, components, nets, net_page_map, last, hist >>

cache == << components, nets, net_page_map >>

EmptyMap == [name \in {} |-> {}]

NoCall == [op |-> "init", arg |-> << >>, raised |-> FALSE, failed_call |-> "",
           result |-> << >>, was_dirty |-> TRUE, fetches |-> 0, before |-> 0]

\* Librarian.__init__ with a provider that has fetched nothing yet
Init ==
    /\ source \in 1..Len(Schematics)
    /\ provider = [fetched |-> 0, fetch_count |-> 0]
    /\ dirty = TRUE
    /\ components = << >>
    /\ nets = << >>
    /\ net_page_map = EmptyMap
    /\ last = NoCall
    /\ hist = [marks |-> 0, cleaned |-> 0, failed |-> 0]

(***************************************************************************)
(* Librarian.refresh                                                       *)
(***************************************************************************)

\* What a refresh can meet: no failure, or the provider call that raises.
Outcomes == {"ok", "fetch_raw_data", "get_components", "get_nets"}

\* A refresh that fetches whether or not the cache is dirty.
NeedsRefreshAlways(d) == TRUE

\* A refresh whose guard is inverted.
NeedsRefreshInverted(d) == ~d

\* Line 76: the guard of refresh.
NeedsRefresh(d) == d

\* The Atlas of a list of nets: a later net of the same name overwrites an
\* earlier one.
AtlasOf(new_nets) ==
    [name \in {new_nets[i].name : i \in 1..Len(new_nets)} |->
        LET last_i == CHOOSE i \in 1..Len(new_nets) :
                          /\ new_nets[i].name = name
                          /\ \A j \in 1..Len(new_nets) : new_nets[j].name = name => j <= i
        IN  new_nets[last_i].pages]

\* An Atlas that is filled without being emptied first.
BuildAtlasIncremental(old_map, new_nets) ==
    [name \in DOMAIN old_map \cup DOMAIN AtlasOf(new_nets) |->
        IF name \in DOMAIN AtlasOf(new_nets) THEN AtlasOf(new_nets)[name] ELSE old_map[name]]

\* Lines 85-87: the Atlas is emptied, then filled from the nets.
BuildAtlas(old_map, new_nets) == AtlasOf(new_nets)

\* A refresh that clears the flag before it fetches.
refresh_statements_clear_first ==
    << "clear_dirty", "fetch_raw_data", "get_components", "get_nets", "build_atlas" >>

\* Lines 80-89: the statements of refresh after its guard, in order.
refresh_statements ==
    << "fetch_raw_data", "get_components", "get_nets", "build_atlas", "clear_dirty" >>

\* One statement of refresh on the Librarian's state st, when the provider
\* call named by outcome raises.  A getter also raises when the provider has
\* fetched nothing.
Exec(st, stmt, outcome) ==
    IF stmt = "fetch_raw_data"
    THEN IF outcome = "fetch_raw_data"
         THEN [st EXCEPT !.provider.fetch_count = @ + 1, !.raised = TRUE,
                         !.failed_call = stmt]
         ELSE [st EXCEPT !.provider.fetch_count = @ + 1, !.provider.fetched = source]
    ELSE IF stmt = "get_components"
    THEN IF outcome = "get_components" \/ st.provider.fetched = 0
         THEN [st EXCEPT !.raised = TRUE, !.failed_call = stmt]
         ELSE [st EXCEPT !.components = Schematics[st.provider.fetched].components]
    ELSE IF stmt = "get_nets"
    THEN IF outcome = "get_nets" \/ st.provider.fetched = 0
         THEN [st EXCEPT !.raised = TRUE, !.failed_call = stmt]
         ELSE [st EXCEPT !.nets = Schematics[st.provider.fetched].nets]
    ELSE IF stmt = "build_atlas"
    THEN [st EXCEPT !.net_page_map = BuildAtlas(st.net_page_map, st.nets)]
    ELSE [st EXCEPT !.dirty = FALSE]

\* The statements from the i-th on, until one raises.
RECURSIVE Run(_, _, _, _)
Run(st, stmts, i, outcome) ==
    IF i > Len(stmts) \/ st.raised THEN st
    ELSE Run(Exec(st, stmts[i], outcome), stmts, i + 1, outcome)

Current ==
    [provider |-> provider, dirty |-> dirty, components |-> components, nets |-> nets,
     net_page_map |-> net_page_map, raised |-> FALSE, failed_call |-> ""]

\* Librarian.refresh, lines 76-89: the state it leaves.
refresh_body(outcome) ==
    IF NeedsRefresh(dirty) THEN Run(Current, refresh_statements, 1, outcome) ELSE Current

\* The outcomes a call can meet: the provider is called only by a refresh
\* that passes the guard.
OutcomesNow == IF NeedsRefresh(dirty) THEN Outcomes ELSE {"ok"}

\* A call may fetch only while the provider has fetches left.
CanCall == ~NeedsRefresh(dirty) \/ provider.fetch_count < MaxFetch

\* The state after a call that ran refresh() to the state r and returned result.
Called(r, op, arg, result) ==
    /\ provider' = r.provider
    /\ dirty' = r.dirty
    /\ components' = r.components
    /\ nets' = r.nets
    /\ net_page_map' = r.net_page_map
    /\ last' = [op |-> op, arg |-> arg, raised |-> r.raised, failed_call |-> r.failed_call,
                result |-> IF r.raised THEN << >> ELSE result,
                was_dirty |-> dirty,
                fetches |-> r.provider.fetch_count - provider.fetch_count,
                before |-> provider.fetched]
    /\ hist' = [hist EXCEPT !.cleaned = IF dirty /\ ~r.dirty THEN @ + 1 ELSE @,
                            !.failed = IF r.raised THEN @ + 1 ELSE @]
    /\ UNCHANGED source

(***************************************************************************)
(* Actions                                                                 *)
(***************************************************************************)

\* The schematic is edited: the provider's source now holds another design.
SourceChanges ==
    /\ \E k \in 1..Len(Schematics) : k # source /\ source' = k
    /\ UNCHANGED << provider, dirty, components, nets, net_page_map, last, hist >>

refresh ==
    /\ CanCall
    /\ \E outcome \in OutcomesNow :
          Called(refresh_body(outcome), "refresh", << >>, << >>)

mark_dirty ==
    /\ dirty' = TRUE
    /\ last' = [op |-> "mark_dirty", arg |-> << >>, raised |-> FALSE, failed_call |-> "",
                result |-> << >>, was_dirty |-> dirty, fetches |-> 0,
                before |-> provider.fetched]
    /\ hist' = [hist EXCEPT !.marks = 1]
    /\ UNCHANGED << source, provider, components, nets, net_page_map >>

get_index ==
    /\ CanCall
    /\ \E outcome \in OutcomesNow :
          LET r == refresh_body(outcome)
          IN  Called(r, "get_index", << >>, get_index_body(r.components, r.nets))

get_page ==
    /\ CanCall
    /\ \E outcome \in OutcomesNow, page_name \in PageArgs :
          LET r == refresh_body(outcome)
          IN  Called(r, "get_page", page_name,
                     get_page_body(r.components, r.nets, r.net_page_map, page_name))

get_context ==
    /\ CanCall
    /\ \E outcome \in OutcomesNow, refdes_list \in RefdesListArgs :
          LET r == refresh_body(outcome)
          IN  Called(r, "get_context", refdes_list,
                     get_context_body(r.components, r.nets, refdes_list))

get_all_pages ==
    /\ CanCall
    /\ \E outcome \in OutcomesNow :
          LET r == refresh_body(outcome)
          IN  Called(r, "get_all_pages", << >>, get_all_pages_body(r.components, r.nets))

get_component ==
    /\ CanCall
    /\ \E outcome \in OutcomesNow, refdes \in RefdesArgs :
          LET r == refresh_body(outcome)
          IN  Called(r, "get_component", refdes, get_component_body(r.components, refdes))

get_net ==
    /\ CanCall
    /\ \E outcome \in OutcomesNow, net_name \in NetNameArgs :
          LET r == refresh_body(outcome)
          IN  Called(r, "get_net", net_name, get_net_body(r.nets, net_name))

get_stats ==
    /\ CanCall
    /\ \E outcome \in OutcomesNow :
          LET r == refresh_body(outcome)
          IN  Called(r, "get_stats", << >>, get_stats_body(r.components, r.nets))

Next ==
    \/ SourceChanges
    \/ refresh
    \/ mark_dirty
    \/ get_index
    \/ get_page
    \/ get_context
    \/ get_all_pages
    \/ get_component
    \/ get_net
    \/ get_stats

Spec == Init /\ [][Next]_vars

QueryOps == {"get_index", "get_page", "get_context", "get_all_pages", "get_component",
             "get_net", "get_stats"}

CallOps == QueryOps \cup {"refresh"}

(***************************************************************************)
(* The queries on a Librarian whose refresh has completed                  *)
(***************************************************************************)

\* The state once refresh() has completed on a provider that holds one of
\* the designs: the cache is that design, the flag is clear.
RenderInit ==
    /\ source \in 1..Len(Designs)
    /\ provider = [fetched |-> source, fetch_count |-> 1]
    /\ dirty = FALSE
    /\ components = Designs[source].components
    /\ nets = Designs[source].nets
    /\ net_page_map = AtlasOf(Designs[source].nets)
    /\ last = [NoCall EXCEPT !.op = "refresh", !.fetches = 1]
    /\ hist = [marks |-> 0, cleaned |-> 1, failed |-> 0]

RenderNext ==
    \/ get_index
    \/ get_page
    \/ get_context
    \/ get_all_pages
    \/ get_component
    \/ get_net
    \/ get_stats

RenderSpec == RenderInit /\ [][RenderNext]_vars

\* The cache holds the design k.
CacheIsDesign(k) ==
    /\ components = Designs[k].components
    /\ nets = Designs[k].nets

(***************************************************************************)
(* The emitter's and the data model's functions called on their own, on    *)
(* inputs drawn from bounded sets                                          *)
(***************************************************************************)

\* The most members of a net that is formatted, and the most pins of a
\* component drawn from the pool of designators.
MaxMembers == 28

MaxPins == 2

\* n members R<n>.1, ..., R1.1: neither in ascending order as strings nor in
\* descending order.
MembersOf(n) == [i \in 1..n |-> << <<"R">> \o IntToStr(n + 1 - i), <<"1">> >>]

\* The nets that are formatted: a ground name, a voltage rail and a signal
\* name, with 0 to MaxMembers members, on one to four pages.
NetInputs ==
    {[kind |-> "net", net |-> Net(name, pages, MembersOf(n)), components |-> cs] :
        name \in {nGND, n3V3, nTX},
        n \in 0..MaxMembers,
        pages \in {{pgA}, {pgB, pgA}, {pgC, pgA, pgB}, {pgA, pgB, pgC, pgD}},
        cs \in {<< >>,
                << Component(<<"R","2">>, <<"1","k">>, << >>, << >>, pgA, << >>,
                             << Pin(<<"1">>, <<"I","N">>, nTX), Pin(<<"2">>, << >>, nGND) >>) >>}}

\* The pin designators of test_pin_sorting, in its order.
ExampleDesignators == << <<"1","0","0">>, <<"1">>, <<"2">>, <<"1","0">>, <<"A","1">>, <<"2","0">>, <<"3">> >>

DesignatorPool ==
    {<<"1">>, <<"2">>, <<"3">>, <<"1","0">>, <<"2","0">>, <<"1","0","0">>, <<"A","1">>, <<"A","2">>, <<"A","1","0">>, <<"B","1">>, <<"0","1">>, << >>, <<"1","a">>,
     << Sup2 >>, << "1", Sup2 >>, << "a", Sup2 >>}

\* The sequences over a set of at most n elements.
SeqsUpTo(S, n) == UNION {[1..k -> S] : k \in 0..n}

\* The components that are formatted: pins with the designators of a short
\* sequence over the pool, or of the example.
ComponentInputs ==
    {[kind |-> "component",
      component |-> Component(rU1, <<"M","C","U">>, << >>, << >>, pgA, << >>,
                              [i \in 1..Len(ds) |-> Pin(ds[i], << >>, << >>)])] :
        ds \in SeqsUpTo(DesignatorPool, MaxPins) \cup {ExampleDesignators}}

\* The refdes that are classified: a prefix of the table in either case, or
\* one that is not in the table, followed by something that is not a letter.
RefdesInputs ==
    {[kind |-> "refdes", refdes |-> p \o s] :
        p \in {<<"R">>, <<"r">>, <<"C">>, <<"c">>, <<"L">>, <<"l">>, <<"F","B">>, <<"f","b">>, <<"F","b">>, <<"F">>, <<"f">>, <<"D">>, <<"d">>, <<"L","E","D">>, <<"l","e","d">>,
               <<"L","e","d">>, <<"Q">>, <<"q">>, <<"U">>, <<"u">>, <<"J">>, <<"j">>, <<"P">>, <<"p">>, <<"C","N">>, <<"c","n">>, <<"C","O","N","N">>, <<"c","o","n","n">>, <<"C","o","n","n">>,
               <<"S","W">>, <<"s","w">>, <<"s","W">>, <<"X">>, <<"x">>, <<"Y">>, <<"y">>,
               << >>, <<"Z">>, <<"T">>, <<"R","R">>, <<"L","E">>, <<"C","O">>, <<"C","O","N","N","X">>, <<"F","B","B">>, <<"S">>, <<"W">>, <<"X","Y">>, <<"R","C">>, <<"U","R">>},
        s \in {<< >>, <<"1">>, <<"1","2","A">>, <<"_","R">>, <<"?">>, <<"1","R">>}}

\* The most pins of a component whose complexity is asked for.
MaxNamedPins == 5

\* Pin names: none, two of the simple set, a lower-case letter and a word.
PinNamePool == {<< >>, <<"1">>, <<"K">>, <<"k">>, <<"V","C","C">>}

\* The components whose complexity is asked for: up to MaxNamedPins pins
\* with names of the pool.
NamedPinInputs ==
    {[kind |-> "pins",
      component |-> Component(rU1, << >>, << >>, << >>, pgA, << >>,
                              [i \in 1..Len(names) |-> Pin(IntToStr(i), names[i], << >>)])] :
        names \in SeqsUpTo(PinNamePool, MaxNamedPins)}

\* Net names: the words and rails of the pattern in either case, with and
\* without suffix or prefix, and names that come close to it.
NetNamePool ==
    {<<"G","N","D">>, <<"g","n","d">>, <<"P","G","N","D">>, <<"A","G","N","D">>, <<"G","N","D","_","A">>, <<"G","N","D","A">>, <<"G","N","D",NL>>, <<"V","S","S">>, <<"V","C","C">>, <<"V","D","D">>, <<"V","E","E">>, <<"V","B","A","T">>, <<"V","B","A","T","_","S","W">>, <<"V","C","C","I","O">>,
     <<"N","E","T","_","G","N","D">>, <<"X","_","V","D","D">>, <<"X","_","V","S","S">>, <<"A",NL,"_","G","N","D">>, <<"3","V","3">>, <<"3",".","3","V">>, <<"+","5","V">>, <<"1","2","V">>, <<"1","V","8">>, <<"V","5">>, <<"V">>, <<"+","V","1">>, <<".","5","V">>, <<".","V","3">>,
     <<"5","V","I","D","E","O">>, <<"T","X">>, <<"V","I","N">>, << >>, <<"x","5","V">>, <<Sup2,"V">>}

\* The nets whose globality is asked for: a name of the pool, 0 to MaxMembers
\* members, one to four pages.
GlobalInputs ==
    {[kind |-> "global", net |-> Net(name, pages, MembersOf(n))] :
        name \in NetNamePool,
        n \in 0..MaxMembers,
        pages \in {{pgA}, {pgB, pgA}, {pgC, pgA, pgB}, {pgA, pgB, pgC, pgD}}}

\* The state before a function is called on the input x: a Librarian as
\* constructed, which the function does not touch.
EmitInit ==
    /\ source = 1
    /\ provider = [fetched |-> 0, fetch_count |-> 0]
    /\ dirty = TRUE
    /\ components = << >>
    /\ nets = << >>
    /\ net_page_map = EmptyMap
    /\ hist = [marks |-> 0, cleaned |-> 0, failed |-> 0]
    /\ \E x \in NetInputs \cup ComponentInputs \cup RefdesInputs \cup NamedPinInputs \cup GlobalInputs :
          last = [NoCall EXCEPT !.op = "input", !.arg = x]

\* The state after a function returned result on the input.
Returned(op, result) ==
    /\ last' = [last EXCEPT !.op = op, !.result = result]
    /\ UNCHANGED << source, provider, dirty, components, nets, net_page_map, hist >>

call_format_net_block ==
    /\ last.op = "input"
    /\ last.arg.kind = "net"
    /\ Returned("_format_net_block",
                _format_net_block(last.arg.net, last.arg.net.pages, last.arg.components))

call_format_component_block ==
    /\ last.op = "input"
    /\ last.arg.kind = "component"
    /\ Returned("_format_component_block", _format_component_block(last.arg.component))

call_derived_type ==
    /\ last.op = "input"
    /\ last.arg.kind = "refdes"
    /\ LET c == Component(last.arg.refdes, << >>, << >>, << >>, pgA, << >>, << >>)
       IN  Returned("derived_type",
                    [derived_type |-> derived_type(c), is_passive |-> is_passive(c)])

call_is_complex ==
    /\ last.op = "input"
    /\ last.arg.kind = "pins"
    /\ Returned("is_complex", is_complex(last.arg.component))

call_is_global ==
    /\ last.op = "input"
    /\ last.arg.kind = "global"
    /\ Returned("is_global", is_global(last.arg.net))

EmitNext ==
    \/ call_format_net_block
    \/ call_format_component_block
    \/ call_derived_type
    \/ call_is_complex
    \/ call_is_global

EmitSpec == EmitInit /\ [][EmitNext]_vars

(***************************************************************************)
(* refresh() and mark_dirty() issued by two callers without serialization: *)
(* the statements of refresh() are steps of their own, and mark_dirty()    *)
(* and an edit of the source can come between any two of them              *)
(***************************************************************************)

\* The caller of refresh() or of a query is at no statement: no call runs.
NoStatement == 0

\* What the caller of get_all_pages is given, and the caller of refresh().
RaceResult(op, r) ==
    IF op = "get_all_pages" THEN get_all_pages_body(r.components, r.nets) ELSE << >>

\* A Librarian as constructed, no call running, no mark_dirty() call yet.
\* hist.pending: a mark_dirty() call was made that no later fetch has read
\* the source after; hist.window: a mark_dirty() call came after the fetch
\* of the refresh that ran last and before that refresh returned;
\* hist.overlapped: some mark_dirty() call came while a call was running.
RaceInit ==
    /\ source \in 1..Len(Schematics)
    /\ provider = [fetched |-> 0, fetch_count |-> 0]
    /\ dirty = TRUE
    /\ components = << >>
    /\ nets = << >>
    /\ net_page_map = EmptyMap
    /\ last = [op |-> "init", pc |-> NoStatement, returned |-> FALSE, raised |-> FALSE,
               result |-> << >>, fetched |-> FALSE]
    /\ hist = [pending |-> FALSE, window |-> FALSE, overlapped |-> FALSE]

\* refresh() is entered, directly or at the head of get_all_pages: line 76
\* returns at once when the flag is clear, and get_all_pages then reads the
\* cache; otherwise the caller stands before the first statement.
race_call ==
    /\ last.pc = NoStatement
    /\ \E op \in {"refresh", "get_all_pages"} :
          IF NeedsRefresh(dirty)
          THEN /\ provider.fetch_count < MaxFetch
               /\ last' = [op |-> op, pc |-> 1, returned |-> FALSE, raised |-> FALSE,
                           result |-> << >>, fetched |-> FALSE]
               /\ hist' = [hist EXCEPT !.window = FALSE]
          ELSE /\ last' = [op |-> op, pc |-> NoStatement, returned |-> TRUE, raised |-> FALSE,
                           result |-> RaceResult(op, Current), fetched |-> FALSE]
               /\ UNCHANGED hist
    /\ UNCHANGED << source, provider, dirty, components, nets, net_page_map >>

\* The running call executes its next statement of refresh(); a provider
\* call may raise, which ends the call; after the last statement the call
\* returns.
race_step ==
    /\ last.pc # NoStatement
    /\ LET stmt == refresh_statements[last.pc]
       IN  \E outcome \in {"ok"} \cup ({stmt} \cap Outcomes) :
              LET r    == Exec(Current, stmt, outcome)
                  done == r.raised \/ last.pc = Len(refresh_statements)
              IN  /\ provider' = r.provider
                  /\ dirty' = r.dirty
                  /\ components' = r.components
                  /\ nets' = r.nets
                  /\ net_page_map' = r.net_page_map
                  /\ last' = [op |-> last.op,
                              pc |-> IF done THEN NoStatement ELSE last.pc + 1,
                              returned |-> done, raised |-> r.raised,
                              result |-> IF done /\ ~r.raised THEN RaceResult(last.op, r) ELSE << >>,
                              fetched |-> last.fetched \/ (stmt = "fetch_raw_data" /\ ~r.raised)]
                  /\ hist' = IF stmt = "fetch_raw_data" /\ ~r.raised
                             THEN [hist EXCEPT !.pending = FALSE] ELSE hist
    /\ UNCHANGED source

\* mark_dirty() by the other caller, at any moment.
race_mark_dirty ==
    /\ dirty' = TRUE
    /\ hist' = [pending |-> TRUE,
                window |-> hist.window \/ (last.pc # NoStatement /\ last.fetched),
                overlapped |-> hist.overlapped \/ last.pc # NoStatement]
    /\ UNCHANGED << source, provider, components, nets, net_page_map, last >>

RaceNext ==
    \/ race_call
    \/ race_step
    \/ race_mark_dirty
    \/ SourceChanges

RaceSpec == RaceInit /\ [][RaceNext]_vars

(***************************************************************************)
(* Provider adapters (adapters/altium_json.py, adapters/kicad_sch.py)      *)
(***************************************************************************)

\* What a call gives its caller: a value, or the exception it raises.
Returns(value) == [raised |-> FALSE, error |-> "", value |-> value]

Raises(error) == [raised |-> TRUE, error |-> error, value |-> << >>]

\* The net name of a pin that is connected to nothing.
NoConnect == <<"N","C">>

\* _is_semantic_pin_name, the same in both adapters
_is_semantic_pin_name(pin_name) ==
    /\ pin_name # << >>
    /\ ~str_isdigit(pin_name)
    /\ pin_name \notin {<<"A">>, <<"K">>}

\* The keys of a dict filled from a sequence, in the order of first insertion.
RECURSIVE KeysInOrder(_)
KeysInOrder(keys) ==
    IF keys = << >> THEN << >>
    ELSE LET before == KeysInOrder(SubSeq(keys, 1, Len(keys) - 1))
         IN  IF keys[Len(keys)] \in Range(before) THEN before
             ELSE Append(before, keys[Len(keys)])

\* The concatenation of a sequence of sequences.
RECURSIVE Concat(_)
Concat(seqs) == IF seqs = << >> THEN << >> ELSE Head(seqs) \o Concat(Tail(seqs))

\* get_nets of both adapters, from nets_dict on: one Net for each net name in
\* the order in which the names were first met, with the pages and the
\* members of the pins met under that name.  An entry is a pin with its net
\* name, its component's designator and its component's page.
NetsOfEntries(entries) ==
    LET names == KeysInOrder([i \in 1..Len(entries) |-> entries[i].net])
    IN  [k \in 1..Len(names) |->
            LET of_net(e) == e.net = names[k]
                es == SelectSeq(entries, of_net)
            IN  Net(names[k],
                    {es[i].page : i \in 1..Len(es)},
                    [i \in 1..Len(es) |-> << es[i].refdes, es[i].pin >>])]

(***************************************************************************)
(* AltiumJSONAdapter                                                       *)
(***************************************************************************)

\* A pin and a component record of the JSON document.  is_object: the
\* record is a JSON object; parameters_is_object and pins_is_array: its
\* "parameters" is an object, its "pins" an array (absent counts as such).
RawPin(name, net) == [name |-> name, net |-> net]

RawComponent(designator, sheet, footprint, description, Comment, PN, pins) ==
    [is_object |-> TRUE, designator |-> designator, sheet |-> sheet,
     footprint |-> footprint, description |-> description,
     parameters_is_object |-> TRUE, Comment |-> Comment, PN |-> PN,
     pins_is_array |-> TRUE, pins |-> pins]

\* A JSON text: whether json.loads accepts it, whether its root is an
\* object, whether the root has the key "components" and whether that is an
\* array, and the records of the array.
JsonDocument(records) ==
    [valid |-> TRUE, root_is_object |-> TRUE, has_components |-> TRUE,
     components_is_array |-> TRUE, components |-> records]

\* self._parsed_data before the first json.loads that returns.
None == [valid |-> FALSE, root_is_object |-> FALSE, has_components |-> FALSE,
         components_is_array |-> FALSE, components |-> << >>]

\* AltiumJSONAdapter.__init__
AltiumJSONAdapter(json_data) ==
    [kind |-> "altium", _raw_json |-> json_data, _parsed_data |-> None, _ready |-> FALSE]

\* AltiumJSONAdapter.fetch_raw_data: the adapter it leaves and whether it
\* raised.
altium_fetch_raw_data(self) ==
    LET doc == self._raw_json
    IN  IF ~doc.valid
        THEN [adapter |-> self, raised |-> TRUE, error |-> "ValueError"]
        ELSE IF ~doc.root_is_object
        THEN [adapter |-> [self EXCEPT !._parsed_data = doc],
              raised |-> TRUE, error |-> "ValueError"]
        ELSE LET parsed == IF doc.has_components THEN doc ELSE JsonDocument(<< >>)
             IN  IF ~parsed.components_is_array
                 THEN [adapter |-> [self EXCEPT !._parsed_data = parsed],
                       raised |-> TRUE, error |-> "ValueError"]
                 ELSE [adapter |-> [self EXCEPT !._parsed_data = parsed, !._ready = TRUE],
                       raised |-> FALSE, error |-> ""]

\* os.path.basename of posixpath: what follows the last "/".
_extract_filename(full_path) ==
    LET slashes == {i \in 1..Len(full_path) : full_path[i] = "/"}
        from == IF slashes = {} THEN 1
                ELSE 1 + CHOOSE i \in slashes : \A j \in slashes : j <= i
    IN  SubSeq(full_path, from, Len(full_path))

\* AltiumJSONAdapter._transform_pins
altium_transform_pins(pins_data) ==
    [i \in 1..Len(pins_data) |->
        Pin(pins_data[i].name,
            IF _is_semantic_pin_name(pins_data[i].name) THEN pins_data[i].name ELSE << >>,
            IF pins_data[i].net = << >> THEN NoConnect ELSE pins_data[i].net)]

\* AltiumJSONAdapter._get_component_value
_get_component_value(comp_data) ==
    IF comp_data.Comment # << >> THEN comp_data.Comment ELSE comp_data.PN

\* _transform_component raises: the record has no .get, no designator, a
\* "parameters" without .get, or "pins" that cannot be iterated.
altium_transform_raises(comp_data) ==
    \/ ~comp_data.is_object
    \/ comp_data.designator = << >>
    \/ ~comp_data.parameters_is_object
    \/ ~comp_data.pins_is_array

\* AltiumJSONAdapter._transform_component, when it returns
altium_transform_component(comp_data) ==
    Component(comp_data.designator, _get_component_value(comp_data), comp_data.footprint,
              comp_data.PN, _extract_filename(comp_data.sheet), comp_data.description,
              altium_transform_pins(comp_data.pins))

\* AltiumJSONAdapter.get_components: the handler of the per-record try calls
\* comp_data.get itself, so a record that is not an object ends the call.
altium_get_components(self) ==
    IF ~self._ready \/ self._parsed_data = None THEN Raises("RuntimeError")
    ELSE LET recs == self._parsed_data.components
             transformed(c) == ~altium_transform_raises(c)
             kept == SelectSeq(recs, transformed)
         IN  IF \E i \in 1..Len(recs) : ~recs[i].is_object THEN Raises("AttributeError")
             ELSE Returns([i \in 1..Len(kept) |-> altium_transform_component(kept[i])])

\* AltiumJSONAdapter.get_nets: every record of the document is read again,
\* with no try; the first record without .get or with pins that cannot be
\* iterated ends the call.
altium_get_nets(self) ==
    IF ~self._ready \/ self._parsed_data = None THEN Raises("RuntimeError")
    ELSE LET recs == self._parsed_data.components
             bad == {i \in 1..Len(recs) : ~recs[i].is_object \/ ~recs[i].pins_is_array}
             entries_of(c) ==
                 [i \in 1..Len(c.pins) |->
                     [net |-> IF c.pins[i].net = << >> THEN NoConnect ELSE c.pins[i].net,
                      refdes |-> c.designator, pin |-> c.pins[i].name,
                      page |-> _extract_filename(c.sheet)]]
         IN  IF bad # {}
             THEN IF recs[CHOOSE i \in bad : \A j \in bad : i <= j].is_object
                  THEN Raises("TypeError") ELSE Raises("AttributeError")
             ELSE Returns(NetsOfEntries(Concat([i \in 1..Len(recs) |-> entries_of(recs[i])])))
(***************************************************************************)
(* KiCADSchematicAdapter                                                   *)
(***************************************************************************)

\* A file of the project directory: whether it is there, whether its parser
\* returns, and what the parser returns.  For a sheet that is the value of
\* "components", a sequence of symbols in the order of the file; for the
\* board that is the netlist, a sequence of footprints with their pads.
File(content) == [exists |-> TRUE, parses |-> TRUE, content |-> content]

Absent == [exists |-> FALSE, parses |-> FALSE, content |-> << >>]

Unreadable == [exists |-> TRUE, parses |-> FALSE, content |-> << >>]

\* A symbol as SchematicParser._parse_component returns it: pins is the
\* list it finds in the symbol, empty when it finds none (no key "pins").
Symbol(reference, value, footprint, lib_id, PN, MPN, Description, pins) ==
    [reference |-> reference, value |-> value, footprint |-> footprint, lib_id |-> lib_id,
     PN |-> PN, MPN |-> MPN, Description |-> Description, pins |-> pins]

\* A footprint as PCBNetlistParser.parse returns it: refdes -> {pad: net}.
Footprint(refdes, pads) == [refdes |-> refdes, pads |-> pads]

\* KiCADSchematicAdapter.__init__.  _parsed_sheets is the dict, as a
\* sequence of its items in insertion order.
KiCADSchematicAdapter ==
    [kind |-> "kicad", _parsed_sheets |-> << >>, _pcb_netlist |-> << >>, _ready |-> FALSE]

\* d[key] = value on a dict: a key that is there keeps its place.
DictPut(d, key, value) ==
    IF \E i \in 1..Len(d) : d[i].key = key
    THEN [i \in 1..Len(d) |-> IF d[i].key = key THEN [key |-> key, value |-> value] ELSE d[i]]
    ELSE Append(d, [key |-> key, value |-> value])

\* Lines 69-80: each sheet that parses is stored under its name.
RECURSIVE StoreSheets(_, _, _, _)
StoreSheets(d, project, names, i) ==
    IF i > Len(names) THEN d
    ELSE StoreSheets(IF project.sheets[names[i]].parses
                     THEN DictPut(d, names[i], project.sheets[names[i]].content)
                     ELSE d,
                     project, names, i + 1)

\* KiCADSchematicAdapter.fetch_raw_data on the project directory, order
\* being the order in which glob lists the sheet names: the adapter it
\* leaves and whether it raised.
kicad_fetch_raw_data(self, project, order) ==
    LET there(name) == project.sheets[name].exists
        parsed(name) == project.sheets[name].parses
        schematic_files == SelectSeq(order, there)
        stored == [self EXCEPT !._parsed_sheets = StoreSheets(@, project, schematic_files, 1)]
    IN  IF schematic_files = << >>
        THEN [adapter |-> self, raised |-> TRUE, error |-> "FileNotFoundError"]
        ELSE IF SelectSeq(schematic_files, parsed) = << >>
        THEN [adapter |-> stored, raised |-> TRUE, error |-> "ValueError"]
        ELSE [adapter |-> [stored EXCEPT
                             !._pcb_netlist = IF project.pcb.exists /\ project.pcb.parses
                                              THEN project.pcb.content ELSE @,
                             !._ready = TRUE],
              raised |-> FALSE, error |-> ""]

\* self._pcb_netlist.get(comp_ref, {})
PadsOf(pcb_netlist, comp_ref) ==
    LET found == {i \in 1..Len(pcb_netlist) : pcb_netlist[i].refdes = comp_ref}
    IN  IF found = {} THEN << >> ELSE pcb_netlist[CHOOSE i \in found : TRUE].pads

\* KiCADSchematicAdapter._transform_pins for a symbol without pins: one Pin
\* for each pad of the board, named by its number when that is semantic.
kicad_transform_pins(pcb_pins) ==
    [i \in 1..Len(pcb_pins) |->
        Pin(pcb_pins[i][1],
            IF _is_semantic_pin_name(pcb_pins[i][1]) THEN pcb_pins[i][1] ELSE << >>,
            IF pcb_pins[i][2] = << >> THEN NoConnect ELSE pcb_pins[i][2])]

\* _transform_component raises: the parser gives "pins" as a list, and
\* _transform_pins calls .get or .items on it.
kicad_transform_raises(comp_data) == comp_data.pins # << >>

\* lib_id.split(":")[-1]
AfterLastColon(lib_id) ==
    LET colons == {i \in 1..Len(lib_id) : lib_id[i] = ":"}
        from == IF colons = {} THEN 1
                ELSE 1 + CHOOSE i \in colons : \A j \in colons : j <= i
    IN  SubSeq(lib_id, from, Len(lib_id))

\* KiCADSchematicAdapter._transform_component, when it returns.  The parser
\* never gives a "datasheet", so the MPN is the property PN or MPN.
kicad_transform_component(comp_ref, comp_data, sheet_name, pcb_netlist) ==
    Component(comp_ref, comp_data.value, comp_data.footprint,
              IF comp_data.PN # << >> THEN comp_data.PN ELSE comp_data.MPN,
              sheet_name,
              IF comp_data.Description # << >> THEN comp_data.Description
              ELSE AfterLastColon(comp_data.lib_id),
              kicad_transform_pins(PadsOf(pcb_netlist, comp_ref)))

\* KiCADSchematicAdapter.get_components
kicad_get_components(self) ==
    IF ~self._ready THEN Raises("RuntimeError")
    ELSE LET of_sheet(item) ==
                 LET transformed(c) == ~kicad_transform_raises(c)
                     kept == SelectSeq(item.value, transformed)
                 IN  [i \in 1..Len(kept) |->
                         kicad_transform_component(kept[i].reference, kept[i], item.key,
                                                   self._pcb_netlist)]
         IN  Returns(Concat([s \in 1..Len(self._parsed_sheets) |->
                                of_sheet(self._parsed_sheets[s])]))

\* The page name of a footprint that no sheet has a symbol for.
UnknownPage == <<"u","n","k","n","o","w","n">>

\* comp_to_page.get(comp_ref, "unknown"): the last sheet that has the symbol.
PageOf(parsed_sheets, comp_ref) ==
    LET has == {s \in 1..Len(parsed_sheets) :
                   \E i \in 1..Len(parsed_sheets[s].value) :
                      parsed_sheets[s].value[i].reference = comp_ref}
    IN  IF has = {} THEN UnknownPage
        ELSE parsed_sheets[CHOOSE s \in has : \A t \in has : t <= s].key

\* KiCADSchematicAdapter.get_nets: from the board's netlist alone.
kicad_get_nets(self) ==
    IF ~self._ready THEN Raises("RuntimeError")
    ELSE LET entries_of(f) ==
                 [i \in 1..Len(f.pads) |->
                     [net |-> IF f.pads[i][2] = << >> THEN NoConnect ELSE f.pads[i][2],
                      refdes |-> f.refdes, pin |-> f.pads[i][1],
                      page |-> PageOf(self._parsed_sheets, f.refdes)]]
         IN  Returns(NetsOfEntries(Concat([i \in 1..Len(self._pcb_netlist) |->
                                              entries_of(self._pcb_netlist[i])])))

\* The three methods of SchematicProvider on either adapter.
fetch_raw_data_of(self, src, order) ==
    IF self.kind = "altium" THEN altium_fetch_raw_data(self)
    ELSE kicad_fetch_raw_data(self, src.project, order)

get_components_of(self) ==
    IF self.kind = "altium" THEN altium_get_components(self) ELSE kicad_get_components(self)

get_nets_of(self) ==
    IF self.kind = "altium" THEN altium_get_nets(self) ELSE kicad_get_nets(self)
(***************************************************************************)
(* Sources of the adapters: JSON documents and project directories         *)
(***************************************************************************)

rQ1 == <<"Q","1">>

rH1 == <<"H","1">>

\* Records of an Altium document: two that transform, one without a
\* designator, one whose "parameters" is null, one whose "pins" is null,
\* and an element of the array that is not an object.
aU1 ==
    RawComponent(rU1, <<"/","p","/","M","a","i","n",".","S","c","h","D","o","c">>, <<"L","Q","F","P","-","1","0","0">>, <<"A","R","M"," ","M","C","U">>, <<"S","T","M","3","2","F","4","0","7">>, <<"S","T","M","3","2","F","4","0","7","V","G","T","6">>,
                 << RawPin(<<"V","C","C">>, n3V3), RawPin(<<"2">>, << >>), RawPin(<<"2","2">>, nTX) >>)

aR1 ==
    RawComponent(rR1, <<"I","O",".","S","c","h","D","o","c">>, <<"0","8","0","5">>, << >>, << >>, <<"R","C","0","8","0","5">>,
                 << RawPin(<<"1">>, nTX), RawPin(<<"A">>, nGND) >>)

aJ1 ==
    RawComponent(rJ1, <<"I","O",".","S","c","h","D","o","c">>, << >>, << >>, <<"H","D","R">>, << >>, << RawPin(<<"1">>, nGND) >>)

aNoDesignator == [aJ1 EXCEPT !.designator = << >>]

aNullParameters == [aJ1 EXCEPT !.parameters_is_object = FALSE]

aNullPins == [aJ1 EXCEPT !.pins_is_array = FALSE, !.pins = << >>]

aNotAnObject ==
    [RawComponent(<< >>, << >>, << >>, << >>, << >>, << >>, << >>) EXCEPT !.is_object = FALSE]

\* The JSON texts an AltiumJSONAdapter is constructed with: "{", "[]", "{}",
\* {"components": "x"}, and documents with the records above.
AltiumDocs ==
    << [JsonDocument(<< >>) EXCEPT !.valid = FALSE],
       [JsonDocument(<< >>) EXCEPT !.root_is_object = FALSE],
       [JsonDocument(<< >>) EXCEPT !.has_components = FALSE],
       [JsonDocument(<< >>) EXCEPT !.components_is_array = FALSE],
       JsonDocument(<< aU1, aR1, aJ1 >>),
       JsonDocument(<< aU1, aNoDesignator, aR1 >>),
       JsonDocument(<< aU1, aNullParameters, aR1 >>),
       JsonDocument(<< aU1, aNullPins, aR1 >>),
       JsonDocument(<< aNotAnObject, aR1 >>) >>

\* Symbols of KiCad sheets; Q1 is one in which the parser finds a pin.
kU1 == Symbol(rU1, <<"M","C","U">>, <<"L","Q","F","P","-","1","0","0">>, <<"M","C","U","_","S","T",":","S","T","M","3","2","F","4","0","7">>, << >>, <<"S","T","M","3","2","F","4","0","7","V","G","T","6">>, << >>, << >>)

kR1 == Symbol(rR1, <<"1","0","k">>, <<"0","8","0","5">>, <<"D","e","v","i","c","e",":","R">>, <<"R","C","0","8","0","5">>, << >>, <<"R","e","s","i","s","t","o","r">>, << >>)

kJ1 == Symbol(rJ1, <<"H","D","R">>, << >>, << >>, << >>, << >>, << >>, << >>)

kQ1 == Symbol(rQ1, <<"N","P","N">>, <<"S","O","T","-","2","3">>, <<"D","e","v","i","c","e",":","Q","_","N","P","N">>, << >>, << >>, << >>,
              << [num |-> <<"1">>, name |-> <<"B">>] >>)

\* The files of a project: sheet A, sheet B, and two states of the board.
\* The first board has a footprint H1 that no sheet has a symbol for, the
\* second a pad whose number is the superscript two.
SheetA == File(<< kU1, kR1 >>)

SheetB == File(<< kJ1, kQ1 >>)

Board1 ==
    File(<< Footprint(rU1, << << <<"1">>, n3V3 >>, << <<"2">>, << >> >>, << <<"T","X">>, nTX >> >>),
            Footprint(rR1, << << <<"1">>, nTX >>, << <<"2">>, nGND >> >>),
            Footprint(rJ1, << << <<"1">>, nGND >> >>),
            Footprint(rH1, << << <<"1">>, nGND >> >>),
            Footprint(rQ1, << << <<"1">>, n3V3 >> >>) >>)

Board2 ==
    File(<< Footprint(rU1, << << <<"A","1">>, n3V3 >>, << << Sup2 >>, nTX >> >>),
            Footprint(rR1, << << <<"1">>, nTX >>, << <<"2">>, nGND >> >>) >>)

\* The states of the project directory.
Projects ==
    {[sheets |-> [name \in {pgA, pgB} |-> IF name = pgA THEN a ELSE b], pcb |-> p] :
        a \in {Absent, Unreadable, SheetA},
        b \in {Absent, SheetB},
        p \in {Absent, Unreadable, Board1, Board2}}

\* The orders in which glob can list the sheets.
SheetOrders == {<< pgA, pgB >>, << pgB, pgA >>}

\* What an adapter reads: a JSON text given at construction, or a project
\* directory.
AltiumSources == {[kind |-> "altium", json_data |-> AltiumDocs[k], project |-> << >>] : k \in 1..Len(AltiumDocs)}

KiCadSources == {[kind |-> "kicad", json_data |-> None, project |-> p] : p \in Projects}

(***************************************************************************)
(* An adapter called through the SchematicProvider interface               *)
(***************************************************************************)

\* No list has been returned since the last fetch that returned.
Unseen == [set |-> FALSE, value |-> << >>]

\* The adapter the caller constructs on a source.
Constructed(src) ==
    IF src.kind = "altium" THEN AltiumJSONAdapter(src.json_data) ELSE KiCADSchematicAdapter

\* An adapter as constructed on its source.  hist.succeeded: a fetch has
\* returned without raising; hist.components and hist.nets: the first list
\* each getter returned since the last such fetch.
AdapterInit ==
    /\ source \in AltiumSources \cup KiCadSources
    /\ provider = Constructed(source)
    /\ dirty = TRUE
    /\ components = << >>
    /\ nets = << >>
    /\ net_page_map = EmptyMap
    /\ last = [op |-> "init", raised |-> FALSE, error |-> "", value |-> << >>]
    /\ hist = [succeeded |-> FALSE, components |-> Unseen, nets |-> Unseen]

fetch_raw_data ==
    /\ \E order \in SheetOrders :
          LET f == fetch_raw_data_of(provider, source, order)
          IN  /\ provider' = f.adapter
              /\ last' = [op |-> "fetch_raw_data", raised |-> f.raised, error |-> f.error,
                          value |-> << >>]
              /\ hist' = IF f.raised THEN hist
                         ELSE [succeeded |-> TRUE, components |-> Unseen, nets |-> Unseen]
    /\ UNCHANGED << source, dirty, components, nets, net_page_map >>

get_components ==
    /\ LET r == get_components_of(provider)
       IN  /\ last' = [op |-> "get_components", raised |-> r.raised, error |-> r.error,
                       value |-> r.value]
           /\ hist' = IF r.raised \/ hist.components.set THEN hist
                      ELSE [hist EXCEPT !.components = [set |-> TRUE, value |-> r.value]]
    /\ UNCHANGED << source, provider, dirty, components, nets, net_page_map >>

get_nets ==
    /\ LET r == get_nets_of(provider)
       IN  /\ last' = [op |-> "get_nets", raised |-> r.raised, error |-> r.error,
                       value |-> r.value]
           /\ hist' = IF r.raised \/ hist.nets.set THEN hist
                      ELSE [hist EXCEPT !.nets = [set |-> TRUE, value |-> r.value]]
    /\ UNCHANGED << source, provider, dirty, components, nets, net_page_map >>

\* Files of the project directory are written, replaced or removed.
edit_project ==
    /\ source.kind = "kicad"
    /\ \E p \in Projects : p # source.project /\ source' = [source EXCEPT !.project = p]
    /\ last' = [op |-> "edit_project", raised |-> FALSE, error |-> "", value |-> << >>]
    /\ UNCHANGED << provider, dirty, components, nets, net_page_map, hist >>

AdapterNext ==
    \/ fetch_raw_data
    \/ get_components
    \/ get_nets
    \/ edit_project

AdapterSpec == AdapterInit /\ [][AdapterNext]_vars

(***************************************************************************)
(* The tool functions (tools/schematic_dsl_tools.py)                       *)
(***************************************************************************)

\* The project_path the tools are called with.
ProjectPath == <<"/","p">>

\* A call that raises error with the message str(e).
RaisesWith(error, message) == [raised |-> TRUE, error |-> error, value |-> message]

\* str(e) of the two errors KiCADSchematicAdapter.fetch_raw_data raises,
\* kicad_sch.py lines 61-63 and 81-83.
FetchMessage(error) ==
    IF error = "FileNotFoundError" THEN <<"N","o"," ",".","k","i","c","a","d","_","s","c","h"," ","f","i","l","e","s"," ","f","o","u","n","d"," ","i","n"," ">> \o ProjectPath
    ELSE <<"F","a","i","l","e","d"," ","t","o"," ","p","a","r","s","e"," ","a","n","y"," ",".","k","i","c","a","d","_","s","c","h"," ","f","i","l","e","s"," ","i","n"," ">> \o ProjectPath

\* str(e) of the ValueError of int() on the superscript two.
IntMessage == <<"i","n","v","a","l","i","d"," ","l","i","t","e","r","a","l"," ","f","o","r"," ","i","n","t","(",")"," ","w","i","t","h"," ","b","a","s","e"," ","1","0",":"," ","'">> \o << Sup2 >> \o <<"'">>

\* Librarian.refresh, lines 76-89, of a Librarian newly constructed on an
\* adapter newly constructed on the project: the cache it fills, or the
\* error of the provider that leaves it.
refresh_on(project, order) ==
    LET f == kicad_fetch_raw_data(KiCADSchematicAdapter, project, order)
        cs == kicad_get_components(f.adapter)
        ns == kicad_get_nets(f.adapter)
    IN  IF f.raised THEN RaisesWith(f.error, FetchMessage(f.error))
        ELSE IF cs.raised THEN cs
        ELSE IF ns.raised THEN ns
        ELSE Returns([components |-> cs.value, nets |-> ns.value,
                      net_page_map |-> BuildAtlas(EmptyMap, ns.value)])

\* What a query of the Librarian gives the tool: the text, or the
\* ValueError that leaves the emitter.
Rendered(text) ==
    IF text = ValueError THEN RaisesWith("ValueError", IntMessage) ELSE Returns(text)

\* The orders in which list(set(...)) can give the elements of S.
OrdersOf(S) ==
    {s \in [1..Cardinality(S) -> S] : \A i, j \in 1..Cardinality(S) : s[i] = s[j] => i = j}

\* A handler that lets the exception leave the tool.
except_nothing(outcome, prefix, suffix) ==
    [raised |-> outcome.raised, error |-> outcome.error, value |-> outcome.value]

\* try: ... return value / except Exception as e: return prefix str(e) suffix
except_Exception(outcome, prefix, suffix) ==
    IF outcome.raised THEN Returns(prefix \o outcome.value \o suffix)
    ELSE Returns(outcome.value)

\* get_schematic_index, lines 39-47.  r is what the refresh of the new
\* Librarian, which its first query runs, gives.
get_schematic_index_body(r) ==
        except_Exception(
            IF r.raised THEN r ELSE Rendered(get_index_body(r.value.components, r.value.nets)),
            <<"E","r","r","o","r"," ","g","e","n","e","r","a","t","i","n","g"," ","s","c","h","e","m","a","t","i","c"," ","i","n","d","e","x",":"," ">>,
            << NL, NL >> \o <<"P","l","e","a","s","e"," ","c","h","e","c","k"," ","t","h","a","t"," ","t","h","e"," ","p","r","o","j","e","c","t"," ","p","a","t","h"," ","c","o","n","t","a","i","n","s"," ",".","k","i","c","a","d","_","s","c","h"," ","f","i","l","e","s",".">>)

\* get_schematic_page, lines 76-84
get_schematic_page_body(r, page_name) ==
        except_Exception(
            IF r.raised THEN r
            ELSE Rendered(get_page_body(r.value.components, r.value.nets,
                                        r.value.net_page_map, page_name)),
            <<"E","r","r","o","r"," ","g","e","n","e","r","a","t","i","n","g"," ","s","c","h","e","m","a","t","i","c"," ","p","a","g","e"," ","D","S","L",":"," ">>,
            << NL, NL >> \o <<"A","v","a","i","l","a","b","l","e"," ","p","a","g","e","s",":"," ","U","s","e"," ","g","e","t","_","s","c","h","e","m","a","t","i","c","_","i","n","d","e","x"," ","t","o"," ","s","e","e"," ","a","l","l"," ","p","a","g","e","s",".">>)

\* get_schematic_context, lines 113-140.  An argument that is None or ""
\* is << >>; connected_components is the order list(set(...)) gave.
get_schematic_context_body(r, component_ref, net_name, connected_components) ==
    LET net == get_net_body(r.value.nets, net_name)
    IN  except_Exception(
            IF component_ref # << >>
            THEN IF r.raised THEN r
                 ELSE Rendered(get_context_body(r.value.components, r.value.nets,
                                                << component_ref >>))
            ELSE IF net_name # << >>
            THEN IF r.raised THEN r
                 ELSE IF net = << >>
                 THEN Returns(<<"E","r","r","o","r",":"," ","N","e","t"," ","'">> \o net_name \o <<"'"," ","n","o","t"," ","f","o","u","n","d"," ","i","n"," ","s","c","h","e","m","a","t","i","c">>)
                 ELSE Rendered(get_context_body(r.value.components, r.value.nets,
                                                connected_components))
            ELSE Returns(<<"E","r","r","o","r",":"," ","P","l","e","a","s","e"," ","s","p","e","c","i","f","y"," ","e","i","t","h","e","r"," ","c","o","m","p","o","n","e","n","t","_","r","e","f"," ","o","r"," ","n","e","t","_","n","a","m","e">>),
            <<"E","r","r","o","r"," ","g","e","n","e","r","a","t","i","n","g"," ","s","c","h","e","m","a","t","i","c"," ","c","o","n","t","e","x","t",":"," ">>, << >>)

\* The refdes of the members of the net the tool looks up, none when the
\* refresh raises or the net is not there.
ConnectedRefdes(r, net_name) ==
        IF r.raised \/ get_net_body(r.value.nets, net_name) = << >> THEN {}
        ELSE LET net == get_net_body(r.value.nets, net_name)[1]
             IN  {net.members[i][1] : i \in 1..Len(net.members)}

\* The arguments the tools are called with.
ToolPageNameArgs == {pgA, pgB, pgZ, UnknownPage}

ToolComponentRefArgs == {<< >>, rU1, rQ1, rZ9}

ToolNetNameArgs == {<< >>, nGND, nTX, nN3}

\* A tool keeps nothing between calls: the state is the project directory
\* and what the last call gave its caller.
ToolInit ==
    /\ source \in KiCadSources
    /\ provider = KiCADSchematicAdapter
    /\ dirty = TRUE
    /\ components = << >>
    /\ nets = << >>
    /\ net_page_map = EmptyMap
    /\ last = [op |-> "init", raised |-> FALSE, error |-> "", value |-> << >>]
    /\ hist = [component_ref |-> << >>, net_name |-> << >>, page_name |-> << >>]

get_schematic_index ==
    /\ \E order \in SheetOrders :
          \E r \in {refresh_on(source.project, order)} :
          \E t \in {get_schematic_index_body(r)} :
              last' = [op |-> "get_schematic_index", raised |-> t.raised, error |-> t.error,
                       value |-> t.value]
    /\ hist' = [component_ref |-> << >>, net_name |-> << >>, page_name |-> << >>]
    /\ UNCHANGED << source, provider, dirty, components, nets, net_page_map >>

get_schematic_page ==
    /\ \E order \in SheetOrders, page_name \in ToolPageNameArgs :
          \E r \in {refresh_on(source.project, order)} :
          \E t \in {get_schematic_page_body(r, page_name)} :
              /\ last' = [op |-> "get_schematic_page", raised |-> t.raised,
                          error |-> t.error, value |-> t.value]
              /\ hist' = [component_ref |-> << >>, net_name |-> << >>,
                          page_name |-> page_name]
    /\ UNCHANGED << source, provider, dirty, components, nets, net_page_map >>

get_schematic_context ==
    /\ \E order \in SheetOrders, component_ref \in ToolComponentRefArgs,
          net_name \in ToolNetNameArgs :
          \E r \in {refresh_on(source.project, order)} :
          \E connected_components \in OrdersOf(ConnectedRefdes(r, net_name)) :
          \E t \in {get_schematic_context_body(r, component_ref, net_name,
                                               connected_components)} :
                 /\ last' = [op |-> "get_schematic_context", raised |-> t.raised,
                             error |-> t.error, value |-> t.value]
                 /\ hist' = [component_ref |-> component_ref, net_name |-> net_name,
                             page_name |-> << >>]
    /\ UNCHANGED << source, provider, dirty, components, nets, net_page_map >>

ToolNext ==
    \/ get_schematic_index
    \/ get_schematic_page
    \/ get_schematic_context
    \/ edit_project

ToolSpec == ToolInit /\ [][ToolNext]_vars

(***************************************************************************)
(* Properties                                                              *)
(***************************************************************************)

\* The cache holds what the provider's snapshot k holds.
CacheIsSnapshot(k) ==
    /\ k \in 1..Len(Schematics)
    /\ components = Schematics[k].components
    /\ nets = Schematics[k].nets
    /\ net_page_map = AtlasOf(Schematics[k].nets)

\* C1: constructing a Librarian fetches nothing; while mark_dirty() has not
\* been called and no provider call has raised, the refresh() and query
\* calls made so far caused exactly one fetch_raw_data() call, made by the
\* first of them (a call that found the cache dirty) and by no later one.
C1_FetchOnce ==
    /\ last.op = "init" => provider.fetch_count = 0
    /\ (hist.marks = 0 /\ hist.failed = 0 /\ last.op \in CallOps) =>
          /\ provider.fetch_count = 1
          /\ last.fetches = IF last.was_dirty THEN 1 ELSE 0

\* C1 witness: a query after the first call, no mark_dirty() and no failure
\* so far: it found the cache clean and did not fetch.
C1_Witness ==
    /\ hist.marks = 0
    /\ hist.failed = 0
    /\ last.op = "get_context"
    /\ ~last.was_dirty
    /\ provider.fetch_count = 1

\* C2 as stated: after mark_dirty() the flag is set, a refresh() or query
\* that finds it set fetches once and clears it, and the number of fetches
\* equals the number of dirty-to-clean transitions.
C2_Original ==
    /\ last.op = "mark_dirty" => dirty
    /\ (last.op \in CallOps /\ last.was_dirty) => (last.fetches = 1 /\ ~dirty)
    /\ provider.fetch_count = hist.cleaned

\* C2, amended: after mark_dirty() the flag is set; a refresh() or query that
\* finds it set calls fetch_raw_data() exactly once and clears the flag unless
\* a provider call raises; one that finds it clear fetches nothing; so the
\* number of fetches equals the number of dirty-to-clean transitions plus the
\* number of refreshes in which a provider call raised.
C2_FetchPerTransition ==
    /\ last.op = "mark_dirty" => dirty
    /\ (last.op \in CallOps /\ last.was_dirty) =>
          /\ last.fetches = 1
          /\ ~last.raised => ~dirty
          /\ last.raised => dirty
    /\ (last.op \in CallOps /\ ~last.was_dirty) => (last.fetches = 0 /\ ~dirty)
    /\ provider.fetch_count = hist.cleaned + hist.failed

\* C2 witness: after mark_dirty() a query fetched once more and cleared the
\* flag: two fetches, two dirty-to-clean transitions.
C2_Witness ==
    /\ hist.marks = 1
    /\ last.op \in QueryOps
    /\ last.was_dirty
    /\ last.fetches = 1
    /\ ~dirty
    /\ provider.fetch_count = 2
    /\ hist.cleaned = 2

\* The result the last query has when it is computed from the cache as it
\* is now.
ResultFromCache ==
    IF last.op = "get_index" THEN get_index_body(components, nets)
    ELSE IF last.op = "get_page"
         THEN get_page_body(components, nets, net_page_map, last.arg)
    ELSE IF last.op = "get_context" THEN get_context_body(components, nets, last.arg)
    ELSE IF last.op = "get_all_pages" THEN get_all_pages_body(components, nets)
    ELSE IF last.op = "get_component" THEN get_component_body(components, last.arg)
    ELSE IF last.op = "get_net" THEN get_net_body(nets, last.arg)
    ELSE get_stats_body(components, nets)

\* C3: when a query returns normally, whatever its argument, the dirty flag
\* is clear, the cache is the snapshot of a completed refresh (the one the
\* provider fetched last) and the result is the one computed from that cache.
C3_QueriesRefreshFirst ==
    (last.op \in QueryOps /\ ~last.raised) =>
        /\ ~dirty
        /\ CacheIsSnapshot(provider.fetched)
        /\ last.result = ResultFromCache

\* C3 witness: get_context([]) on a dirty Librarian whose source had changed:
\* it refreshed before it returned the empty-context message.
C3_Witness ==
    /\ last.op = "get_context"
    /\ last.arg = << >>
    /\ last.was_dirty
    /\ ~last.raised
    /\ last.before # provider.fetched
    /\ last.before # 0

\* C4: a step in which fetch_raw_data() raises ends with the exception at the
\* caller, leaves components, nets and the Atlas as they were and leaves the
\* dirty flag set.
C4_FetchFailureKeepsCache ==
    [][(last'.raised /\ last'.failed_call = "fetch_raw_data") =>
          /\ components' = components
          /\ nets' = nets
          /\ net_page_map' = net_page_map
          /\ dirty'
          /\ (dirty => last'.fetches = 1)]_vars

\* C4 witness: fetch_raw_data() raised after an earlier successful refresh and
\* after the source changed: the cache still holds the earlier snapshot.
C4_Witness ==
    /\ last.raised
    /\ last.failed_call = "fetch_raw_data"
    /\ hist.cleaned >= 1
    /\ dirty
    /\ provider.fetched # source
    /\ CacheIsSnapshot(provider.fetched)
    /\ components # << >>

\* C5: on a clean cache (after a successful refresh) the keys of the Atlas
\* are exactly the names of the cached nets and each cached net's name maps
\* to that net's pages.
C5_AtlasMatchesNets ==
    ~dirty =>
        /\ DOMAIN net_page_map = {nets[i].name : i \in 1..Len(nets)}
        /\ \A i \in 1..Len(nets) : net_page_map[nets[i].name] = nets[i].pages

\* C5 witness: a refresh replaced the snapshot of Sch1 by that of Sch2: the
\* net TXB of the earlier refresh has no entry any more.
C5_Witness ==
    /\ last.op \in CallOps
    /\ ~last.raised
    /\ last.was_dirty
    /\ hist.failed = 0
    /\ last.before = 1
    /\ provider.fetched = 2
    /\ nets # << >>
    /\ nTXB \notin DOMAIN net_page_map

\* C6: a query that finds the cache clean leaves components, nets (names,
\* pages and members), the Atlas and the dirty flag as they were and calls
\* no provider method.
C6_QueriesReadOnly ==
    [][(~dirty /\ last'.op \in QueryOps) =>
          /\ components' = components
          /\ nets' = nets
          /\ net_page_map' = net_page_map
          /\ dirty' = dirty
          /\ provider' = provider]_vars

\* C6 witness: get_context for U1 and R1 has run on the clean cache of Sch1,
\* where it filters four connected nets; the cache is still that snapshot.
C6_Witness ==
    /\ last.op = "get_context"
    /\ last.arg = << rU1, rR1 >>
    /\ ~last.was_dirty
    /\ last.fetches = 0
    /\ ~dirty
    /\ CacheIsSnapshot(1)

\* The pages and the refdes of the cache.
CachedPages ==
    {components[i].page : i \in 1..Len(components)}
    \cup UNION {nets[i].pages : i \in 1..Len(nets)}

CachedRefdes == {components[i].refdes : i \in 1..Len(components)}

\* C7: when the refresh at its head succeeds, get_page of a name that is no
\* cached component's page and in no cached net's pages returns a text that
\* names the page and says it is not found, get_context([]) returns the
\* empty-context text, and get_context of refdes none of which is cached
\* returns a text that says so and names each requested refdes; a query
\* raises only when a provider call of its refresh raised.
C7_NotFoundIsText ==
    /\ (last.op = "get_page" /\ ~last.raised /\ last.arg \notin CachedPages) =>
          /\ SplitLines(last.result)[1] = <<"#"," ","P","A","G","E",":"," ">> \o last.arg
          /\ Contains(last.result, <<"(","P","a","g","e"," ","n","o","t"," ","f","o","u","n","d"," ","i","n"," ","s","c","h","e","m","a","t","i","c",")">>)
    /\ (last.op = "get_context" /\ ~last.raised /\ last.arg = << >>) =>
          /\ SplitLines(last.result)[1] = <<"#"," ","C","O","N","T","E","X","T",":"," ","(","e","m","p","t","y",")">>
          /\ Contains(last.result, <<"(","N","o"," ","c","o","m","p","o","n","e","n","t","s"," ","s","p","e","c","i","f","i","e","d"," ","f","o","r"," ","c","o","n","t","e","x","t",")">>)
    /\ (last.op = "get_context" /\ ~last.raised /\ last.arg # << >>
           /\ Range(last.arg) \cap CachedRefdes = {}) =>
          /\ SplitLines(last.result)[1] = <<"#"," ","C","O","N","T","E","X","T",":"," ">> \o Join(last.arg, <<","," ">>)
          /\ Contains(last.result, <<"(","C","o","m","p","o","n","e","n","t","s"," ","n","o","t"," ","f","o","u","n","d"," ","i","n"," ","s","c","h","e","m","a","t","i","c",")">>)
    /\ (last.op \in QueryOps /\ last.raised) =>
          (last.was_dirty /\ last.failed_call \in Outcomes \ {"ok"})

\* C7 witness: get_page of the unknown page Z on a schematic that has
\* components.
C7_Witness ==
    /\ last.op = "get_page"
    /\ last.arg = pgZ
    /\ ~last.raised
    /\ components # << >>
    /\ last.arg \notin CachedPages

\* C8 as stated: get_page of a page that exists (some cached component is on
\* it, or some cached net names it) returns the page format: a header line
\* that names the page, a COMPONENTS section and a NETS section.
C8_PageFormat ==
    (last.op = "get_page" /\ ~last.raised /\ last.arg \in CachedPages) =>
        LET lines == SplitLines(last.result)
        IN  /\ lines[1] = <<"#"," ","P","A","G","E",":"," ">> \o last.arg
            /\ <<"#"," ","C","O","M","P","O","N","E","N","T","S">> \in Range(lines)
            /\ <<"#"," ","N","E","T","S">> \in Range(lines)

\* The components of the cache that are on the page.
OnPage(page_name) == {c \in Range(components) : c.page = page_name}

\* C9: for a page with at least one component, the lines of get_page's
\* output that begin with "COMP " are the lines "COMP <refdes> (<value>)" of
\* exactly the complex components of that page, and the lines that begin
\* with "NET " are the lines "NET <name>" of exactly the cached nets with a
\* member whose refdes is a component of that page.
C9_PageContents ==
    (last.op = "get_page" /\ ~last.raised /\ OnPage(last.arg) # {}) =>
        LET lines == Range(SplitLines(last.result))
        IN  /\ {l \in lines : StartsWith(l, <<"C","O","M","P"," ">>)}
                  = {<<"C","O","M","P"," ">> \o c.refdes \o <<" ","(">> \o c.value \o <<")">> :
                        c \in {x \in OnPage(last.arg) : is_complex(x)}}
            /\ {l \in lines : StartsWith(l, <<"N","E","T"," ">>)}
                  = {<<"N","E","T"," ">> \o n.name :
                        n \in {x \in Range(nets) :
                                 \E m \in Range(x.members) :
                                    m[1] \in {c.refdes : c \in OnPage(last.arg)}}}

\* C9 witness: get_page of page B of Sch1, which holds the complex U2 and the
\* simple J1 and C1, while the complex U1 and the net TX are on page A only.
C9_Witness ==
    /\ last.op = "get_page"
    /\ last.arg = pgB
    /\ ~last.raised
    /\ CacheIsSnapshot(1)

\* The cached components that are not requested, are not passive and share a
\* cached net with a requested component that is cached.
ExpectedNeighbors(refdes_list) ==
    {c \in Range(components) :
        /\ c.refdes \notin Range(refdes_list)
        /\ ~is_passive(c)
        /\ \E n \in Range(nets) :
              /\ \E m \in Range(n.members) : m[1] \in Range(refdes_list) \cap CachedRefdes
              /\ \E m \in Range(n.members) : m[1] = c.refdes}

\* The lines that follow the line header, up to the next empty line.
RECURSIVE LinesUntilBlank(_, _)
LinesUntilBlank(lines, i) ==
    IF i > Len(lines) \/ lines[i] = << >> THEN << >>
    ELSE << lines[i] >> \o LinesUntilBlank(lines, i + 1)

SectionOf(lines, header) ==
    LET h == FirstIndex({i \in 1..Len(lines) : lines[i] = header})
    IN  IF h = 0 THEN << >> ELSE LinesUntilBlank(lines, h + 1)

\* The summary line of a neighbor.
SummaryLine(c) ==
    IF c.description = << >> THEN c.refdes \o <<" ","(">> \o c.value \o <<")">>
    ELSE c.refdes \o <<" ","(">> \o c.value \o <<")"," ","-"," ">> \o c.description

\* C10: when get_context finds a primary component, its CONTEXT_NEIGHBORS
\* section holds one summary line for each cached component that is not
\* primary, shares a net with a primary component and is not passive, in
\* ascending order of refdes, and nothing else; there is no such section
\* when there is no such component.
C10_ContextNeighbors ==
    (last.op = "get_context" /\ ~last.raised
        /\ Range(last.arg) \cap CachedRefdes # {}) =>
        LET lines == SplitLines(last.result)
            expected == ExpectedNeighbors(last.arg)
            order == SortedSet({c.refdes : c \in expected})
            headers == {i \in 1..Len(lines) : lines[i] = <<"#"," ","C","O","N","T","E","X","T","_","N","E","I","G","H","B","O","R","S">>}
            section == SectionOf(lines, <<"#"," ","C","O","N","T","E","X","T","_","N","E","I","G","H","B","O","R","S">>)
        IN  IF expected = {} THEN headers = {}
            ELSE /\ Cardinality(headers) = 1
                 /\ Len(section) = Len(order)
                 /\ \A i \in 1..Len(order) :
                       \E c \in expected : c.refdes = order[i] /\ section[i] = SummaryLine(c)

\* C10 witness: the context of U1 and R1 in Sch1: U2 and J1 are listed, the
\* passive neighbor C1 and the primary components are not.
C10_Witness ==
    /\ last.op = "get_context"
    /\ last.arg = << rU1, rR1 >>
    /\ ~last.raised
    /\ CacheIsSnapshot(1)
    /\ {c.refdes : c \in ExpectedNeighbors(last.arg)} = {rU2, rJ1}
    /\ Contains(last.result, rC1)

\* The indices of the lines that open a net block.
NetHeaders(lines) == {i \in 1..Len(lines) : StartsWith(lines[i], <<"N","E","T"," ">>)}

\* The indented lines that follow line i: the body of the block opened there.
RECURSIVE BlockBody(_, _)
BlockBody(lines, i) ==
    IF i + 1 > Len(lines) \/ ~StartsWith(lines[i + 1], <<" "," ">>) THEN << >>
    ELSE << lines[i + 1] >> \o BlockBody(lines, i + 1)

\* The text of a line after its first n characters.
Drop(line, n) == SubSeq(line, n + 1, Len(line))

\* The pieces of a text between the separators ", ".
SplitCommas(text) ==
    LET breaks == {i \in 1..(Len(text) - 1) : text[i] = "," /\ text[i + 1] = " "}
        n == Cardinality(breaks)
        pos(k) == IF k = 0 THEN -1
                  ELSE IF k = n + 1 THEN Len(text) + 1
                  ELSE CHOOSE p \in breaks : Cardinality({q \in breaks : q <= p}) = k
    IN  [k \in 1..(n + 1) |-> SubSeq(text, pos(k - 1) + 2, pos(k) - 1)]

\* The text before the first occurrence of a character, all of it when the
\* character does not occur.
Before(text, ch) ==
    LET at == FirstIndex({i \in 1..Len(text) : text[i] = ch})
    IN  IF at = 0 THEN text ELSE SubSeq(text, 1, at - 1)

\* The connection lines of a block body, without their label.
ConLines(body) ==
    LET is_con(l) == StartsWith(l, <<" "," ","C","O","N",":"," ">>)
        con == SelectSeq(body, is_con)
    IN  [i \in 1..Len(con) |-> Drop(con[i], 7)]

\* The pin references of a connection list, without an "(+ N others)" suffix.
ConRefs(con) ==
    LET at == FirstIndex({i \in 1..(Len(con) - 2) : SubSeq(con, i, i + 2) = <<" ","(","+">>})
        shown == IF at = 0 THEN con ELSE SubSeq(con, 1, at - 1)
    IN  IF shown = << >> THEN << >> ELSE SplitCommas(shown)

\* The requested refdes that are cached, the cached nets with such a member,
\* and the other refdes on those nets.
PrimaryRefdes(refdes_list) == Range(refdes_list) \cap CachedRefdes

ConnectedNets(refdes_list) ==
    {n \in Range(nets) : \E m \in Range(n.members) : m[1] \in PrimaryRefdes(refdes_list)}

NeighborRefdes(refdes_list) ==
    UNION {{m[1] : m \in Range(n.members)} : n \in ConnectedNets(refdes_list)}
        \ PrimaryRefdes(refdes_list)

\* C11: when get_context finds a primary component, the lines "NET <name>"
\* of its output are, in ascending order of name, one for each cached net
\* with a member whose refdes is primary and for no other net (a net that
\* touches only neighbors has no block), and every pin reference in the
\* connection list of a block is REFDES.PIN of a member of that net whose
\* refdes is primary or a neighbor refdes.
C11_ContextNets ==
    (last.op = "get_context" /\ ~last.raised /\ PrimaryRefdes(last.arg) # {}) =>
        LET lines == SplitLines(last.result)
            heads == NetHeaders(lines)
            names == SortedSet({n.name : n \in ConnectedNets(last.arg)})
            context == PrimaryRefdes(last.arg) \cup NeighborRefdes(last.arg)
        IN  /\ Cardinality(heads) = Len(names)
            /\ \A k \in 1..Len(names) :
                  \E i \in heads :
                     /\ Cardinality({j \in heads : j <= i}) = k
                     /\ lines[i] = <<"N","E","T"," ">> \o names[k]
                     /\ Len(ConLines(BlockBody(lines, i))) = 1
                     /\ \A ref \in Range(ConRefs(ConLines(BlockBody(lines, i))[1])) :
                           \E n \in ConnectedNets(last.arg) :
                              /\ n.name = names[k]
                              /\ \E m \in Range(n.members) :
                                    /\ m[1] \in context
                                    /\ Before(ref, "(") = m[1] \o <<".">> \o m[2]

\* C11 witness: the context of R1 in Sch1: the nets TX and TXB have blocks,
\* and GND, which touches the neighbors U1 and J1 but not R1, has none.
C11_Witness ==
    /\ last.op = "get_context"
    /\ last.arg = << rR1 >>
    /\ ~last.raised
    /\ CacheIsDesign(1)
    /\ {n.name : n \in ConnectedNets(last.arg)} = {nTX, nTXB}
    /\ NeighborRefdes(last.arg) = {rU1, rJ1}
    /\ \E n \in Range(nets) :
          /\ n.name = nGND
          /\ \E m \in Range(n.members) : m[1] \in NeighborRefdes(last.arg)

\* The line of get_index for a page: its name and the numbers of cached
\* components on it and of cached nets that name it.
PageLine(page) ==
    <<"-"," ">> \o page \o <<" ","(">>
    \o IntToStr(Cardinality({i \in 1..Len(components) : components[i].page = page}))
    \o <<" ","c","o","m","p","o","n","e","n","t","s",","," ">>
    \o IntToStr(Cardinality({i \in 1..Len(nets) : page \in nets[i].pages}))
    \o <<" ","n","e","t","s",")">>

\* C12: for a cache that is not empty, the lines under "## Pages" of
\* get_index are, in ascending order of page name, one line for each page
\* of the union of the component pages and the net pages, each with the
\* number of cached components on that page and the number of cached nets
\* whose pages contain it.
C12_IndexPages ==
    (last.op = "get_index" /\ ~last.raised /\ CachedPages # {}) =>
        LET section == SectionOf(SplitLines(last.result), <<"#","#"," ","P","a","g","e","s">>)
            pages == SortedSet(CachedPages)
        IN  /\ Len(section) = Len(pages)
            /\ \A i \in 1..Len(pages) : section[i] = PageLine(pages[i])
            /\ \A i, j \in 1..Len(pages) : i < j => StrLess(pages[i], pages[j])

\* C12 witness: get_index on Sch1, whose page C is named by a net only and
\* is listed with no component and one net.
C12_Witness ==
    /\ last.op = "get_index"
    /\ ~last.raised
    /\ CacheIsDesign(1)
    /\ SortedSet(CachedPages) = << pgA, pgB, pgC >>
    /\ PageLine(pgC) = <<"-"," ","C"," ","(","0"," ","c","o","m","p","o","n","e","n","t","s",","," ","1"," ","n","e","t","s",")">>
    /\ PageLine(pgC) \in Range(SplitLines(last.result))

\* The line of get_index for an inter-page net.
SignalLine(n) ==
    IF is_global(n)
    THEN IF Contains(Upper(n.name), <<"G","N","D">>) \/ Contains(Upper(n.name), <<"V","S","S">>)
         THEN <<"-"," ">> \o n.name \o <<":"," ","A","L","L","_","P","A","G","E","S"," ","(","G","r","o","u","n","d",")">>
         ELSE <<"-"," ">> \o n.name \o <<":"," ","A","L","L","_","P","A","G","E","S"," ","(","P","o","w","e","r"," ","R","a","i","l",")">>
    ELSE <<"-"," ">> \o n.name \o <<":"," ">> \o Join(SortedSet(n.pages), << " ", Arrow, " " >>)

C14_EmptySchematic ==
    (~last.raised /\ components = << >> /\ nets = << >>) =>
        /\ last.op = "get_index" =>
              /\ Contains(last.result, <<"E","m","p","t","y"," ","s","c","h","e","m","a","t","i","c">>)
              /\ ~Contains(last.result, <<"#","#"," ","P","a","g","e","s">>)
              /\ ~Contains(last.result, <<"#","#"," ","I","n","t","e","r","-","P","a","g","e"," ","S","i","g","n","a","l","s">>)
        /\ last.op = "get_all_pages" => last.result = << >>
        /\ last.op = "get_stats" =>
              /\ DOMAIN last.result = {"total_components", "total_nets", "total_pages",
                                       "inter_page_nets", "global_nets"}
              /\ \A k \in DOMAIN last.result : last.result[k] = 0

\* C14 witness: get_index on the cache of a provider that returned no
\* component and no net.
C14_Witness ==
    /\ last.op = "get_index"
    /\ ~last.raised
    /\ ~dirty
    /\ provider.fetched = 3
    /\ Designs[3] = Sch3
    /\ components = << >>
    /\ nets = << >>
    /\ Contains(last.result, <<"E","m","p","t","y"," ","s","c","h","e","m","a","t","i","c">>)

\* The number of times x occurs in a sequence.
Count(s, x) == Cardinality({i \in 1..Len(s) : s[i] = x})

\* The pin references of the members of the net that was formatted.
MemberRefs(input) ==
    [i \in 1..Len(input.net.members) |->
        _format_pin_reference(input.net.members[i][1], input.net.members[i][2],
                              input.components)]

\* The connection list of the net block that was returned.
ConOfBlock(text) == ConLines(BlockBody(SplitLines(text), 1))

\* C15: the connection list of a net block shows pin references of the
\* net's members in ascending order as strings.  When the net is global and
\* has more than 10 members it shows exactly 10, none larger than a member
\* reference it leaves out, followed by "(+ N others)" with N the member
\* count less 10 (27 members: "(+ 17 others)"); otherwise it shows every
\* member and nothing follows them.
C15_NetMembers ==
    last.op = "_format_net_block" =>
        LET refs == MemberRefs(last.arg)
            n == Len(refs)
            con == ConOfBlock(last.result)[1]
            shown == ConRefs(con)
            truncated == is_global(last.arg.net) /\ n > MaxGlobalRefs
        IN  /\ Len(ConOfBlock(last.result)) = 1
            /\ \A i, j \in 1..Len(shown) : i < j => ~StrLess(shown[j], shown[i])
            /\ \A r \in Range(shown) : Count(shown, r) <= Count(refs, r)
            /\ IF truncated
               THEN /\ Len(shown) = MaxGlobalRefs
                    /\ con = Join(shown, <<","," ">>) \o <<" ","(","+"," ">> \o IntToStr(n - MaxGlobalRefs)
                                \o <<" ","o","t","h","e","r","s",")">>
                    /\ \A r \in Range(refs) :
                          Count(shown, r) < Count(refs, r) => ~StrLess(r, shown[Len(shown)])
                    /\ n = 27 => EndsWith(con, <<" ","(","+"," ","1","7"," ","o","t","h","e","r","s",")">>)
               ELSE /\ Len(shown) = n
                    /\ con = Join(shown, <<","," ">>)

\* C15 witness: the net GND with 27 members was formatted: 10 references and
\* "(+ 17 others)".
C15_Witness ==
    /\ last.op = "_format_net_block"
    /\ last.arg.net.name = nGND
    /\ Len(last.arg.net.members) = 27
    /\ last.arg.components # << >>
    /\ Len(ConRefs(ConOfBlock(last.result)[1])) = 10
    /\ EndsWith(last.result, <<"R","1","7",".","1",","," ","R","1","8",".","1"," ","(","+"," ","1","7"," ","o","t","h","e","r","s",")">>)

\* The LINKS lines of a block body, without their label.
LinksLines(body) ==
    LET is_links(l) == StartsWith(l, <<" "," ","L","I","N","K","S",":"," ">>)
        links == SelectSeq(body, is_links)
    IN  [i \in 1..Len(links) |-> Drop(links[i], 9)]

\* C16: in the output of get_page and of get_context, the block of a cached
\* net has at most one LINKS line: "LINKS: ALL_PAGES" when the net is
\* global, on however many pages it is; otherwise, when the net has more
\* than one page, "LINKS: " with exactly its pages in ascending order,
\* separated by ", "; otherwise none.
C16_NetLinks ==
    (last.op \in {"get_page", "get_context"} /\ ~last.raised) =>
        LET lines == SplitLines(last.result)
        IN  \A i \in NetHeaders(lines) :
               \A n \in Range(nets) :
                  lines[i] = <<"N","E","T"," ">> \o n.name =>
                     LET links == LinksLines(BlockBody(lines, i))
                     IN  IF is_global(n) THEN links = << <<"A","L","L","_","P","A","G","E","S">> >>
                         ELSE IF Cardinality(n.pages) > 1
                         THEN /\ Len(links) = 1
                              /\ Len(SplitCommas(links[1])) = Cardinality(n.pages)
                              /\ Range(SplitCommas(links[1])) = n.pages
                              /\ \A a, b \in 1..Len(SplitCommas(links[1])) :
                                    a < b => StrLess(SplitCommas(links[1])[a],
                                                     SplitCommas(links[1])[b])
                         ELSE links = << >>

\* C16 witness: page B of Sch4: VBAT, global on its single page, has
\* "LINKS: ALL_PAGES", and AGND, not global, has "LINKS: A, B".
C16_Witness ==
    /\ last.op = "get_page"
    /\ last.arg = pgB
    /\ ~last.raised
    /\ CacheIsDesign(4)
    /\ \E n \in Range(nets) : n.name = nVBAT /\ n.pages = {pgB} /\ is_global(n)
    /\ Contains(last.result, <<"N","E","T"," ","V","B","A","T">> \o << NL >> \o <<" "," ","L","I","N","K","S",":"," ","A","L","L","_","P","A","G","E","S">>)
    /\ Contains(last.result, <<"N","E","T"," ","A","G","N","D">> \o << NL >> \o <<" "," ","L","I","N","K","S",":"," ","A",","," ","B">>)

\* The pin reference of a net member by the rule for pin names, the pin
\* looked up among the cached components.
ExpectedRef(m) ==
    LET named == {p \in UNION {Range(c.pins) : c \in {x \in Range(components) : x.refdes = m[1]}} :
                     p.designator = m[2] /\ p.name # << >> /\ p.name \notin simple_names}
    IN  IF named = {} THEN m[1] \o <<".">> \o m[2]
        ELSE m[1] \o <<".">> \o m[2] \o <<"(">> \o (CHOOSE p \in named : TRUE).name \o <<")">>

\* C17 as stated: in the output of get_page and of get_context, the
\* references in the connection list of a cached net are those of its
\* members, each REFDES.PIN(NAME) when the pin is found on a cached component
\* with a name that is not empty and not one of 1, 2, 3, 4, A, K, and
\* REFDES.PIN otherwise, also for a component of another page and for a
\* passive neighbor.
C17_PinReferences ==
    (last.op \in {"get_page", "get_context"} /\ ~last.raised) =>
        LET lines == SplitLines(last.result)
        IN  \A i \in NetHeaders(lines) :
               \A n \in Range(nets) :
                  lines[i] = <<"N","E","T"," ">> \o n.name =>
                     Range(ConRefs(ConLines(BlockBody(lines, i))[1]))
                        = {ExpectedRef(m) : m \in Range(n.members)}

\* The designators of the pin lines of a component block, in their order.
ListedDesignators(text) ==
    LET lines == SplitLines(text)
        h == FirstIndex({i \in 1..Len(lines) : lines[i] = <<" "," ","P","I","N","S",":">>})
    IN  IF h = 0 THEN << >>
        ELSE [i \in 1..(Len(lines) - h) |-> Before(Drop(lines[h + i], 4), ":")]

\* Natural order: the runs of digits of two designators compare as numbers,
\* the other runs as strings.
NaturalLess(a, b) == KeyLess(_natural_sort_key(a), _natural_sort_key(b))

\* C18 as stated: formatting a component never fails, whatever the
\* designators of its pins, and lists the pins in natural order of their
\* designators: the designators 100, 1, 2, 10, A1, 20, 3 are listed as
\* 1, 2, 3, 10, 20, 100, A1.
C18_NaturalPinOrder ==
    last.op = "_format_component_block" =>
        /\ last.result # ValueError
        /\ LET given == [i \in 1..Len(last.arg.component.pins) |->
                            last.arg.component.pins[i].designator]
               listed == ListedDesignators(last.result)
           IN  /\ Len(listed) = Len(given)
               /\ \A x \in Range(given) : Count(listed, x) = Count(given, x)
               /\ \A i, j \in 1..Len(listed) : i < j => ~NaturalLess(listed[j], listed[i])
               /\ given = ExampleDesignators =>
                     listed = << <<"1">>, <<"2">>, <<"3">>, <<"1","0">>, <<"2","0">>, <<"1","0","0">>, <<"A","1">> >>

\* A sequence in the order a permutation of its indices gives.
Permute(s, f) == [i \in 1..Len(s) |-> s[f[i]]]

\* The lists of nets that differ from the given one in the order of the
\* members of one net.
MemberOrders(net_list) ==
    UNION {{[net_list EXCEPT ![k] = Net(net_list[k].name, net_list[k].pages,
                                        Permute(net_list[k].members, f))] :
               f \in Permutations(1..Len(net_list[k].members))} :
              k \in 1..Len(net_list)}

\* The text the last query returns on a cache that lists the components cs
\* and the nets ns, for the refdes list rl when it is get_context.
Rendering(cs, ns, rl) ==
    IF last.op = "get_index" THEN get_index_body(cs, ns)
    ELSE IF last.op = "get_page" THEN get_page_body(cs, ns, AtlasOf(ns), last.arg)
    ELSE get_context_body(cs, ns, rl)

\* The text of the last query does not change when the provider lists the
\* components, the nets, or the members of a net in another order.
ProviderOrderIndependent ==
    /\ \A f \in Permutations(1..Len(components)) :
          Rendering(Permute(components, f), nets, last.arg) = last.result
    /\ \A g \in Permutations(1..Len(nets)) :
          Rendering(components, Permute(nets, g), last.arg) = last.result
    /\ \A ns \in MemberOrders(nets) :
          Rendering(components, ns, last.arg) = last.result

\* C19 as stated: with unique refdes and net names, the text of get_index,
\* get_page and get_context depends neither on the order in which the
\* provider lists components, nets and net members nor on the order of the
\* refdes list passed to get_context.
C19_Original ==
    (last.op \in {"get_index", "get_page", "get_context"} /\ ~last.raised) =>
        /\ ProviderOrderIndependent
        /\ last.op = "get_context" =>
              \A h \in Permutations(1..Len(last.arg)) :
                 Rendering(components, nets, Permute(last.arg, h)) = last.result

\* C19, amended: with unique refdes and net names, the text of get_index,
\* get_page and get_context does not depend on the order in which the
\* provider lists components, nets and net members, and the text of
\* get_context does not depend on the order of the refdes list when a
\* requested refdes is cached (the not-found text names the requested refdes
\* in the order given).
C19_OrderIndependent ==
    (last.op \in {"get_index", "get_page", "get_context"} /\ ~last.raised) =>
        /\ ProviderOrderIndependent
        /\ (last.op = "get_context" /\ PrimaryRefdes(last.arg) # {}) =>
              \A h \in Permutations(1..Len(last.arg)) :
                 Rendering(components, nets, Permute(last.arg, h)) = last.result

\* C19 witness: the context of U1 and R1 on Sch1, whose provider lists
\* neither the components nor the nets in ascending order: the text names
\* R1 before U1.
C19_Witness ==
    /\ last.op = "get_context"
    /\ last.arg = << rU1, rR1 >>
    /\ ~last.raised
    /\ CacheIsDesign(1)
    /\ SplitLines(last.result)[1] = <<"#"," ","C","O","N","T","E","X","T",":"," ","R","1",","," ","U","1">>
    /\ components[1].refdes = rU2
    /\ nets[1].name = nTXB

\* The prefix table: the prefix in upper case and the type it gives.
PrefixTable ==
    {<< <<"R">>, <<"R","E","S">> >>, << <<"C">>, <<"C","A","P">> >>, << <<"L">>, <<"I","N","D">> >>, << <<"F","B">>, <<"I","N","D">> >>,
     << <<"F">>, <<"F","U","S","E">> >>, << <<"D">>, <<"D","I","O","D","E">> >>, << <<"L","E","D">>, <<"D","I","O","D","E">> >>, << <<"Q">>, <<"T","R","A","N","S","I","S","T","O","R">> >>,
     << <<"U">>, <<"I","C">> >>, << <<"J">>, <<"C","O","N","N">> >>, << <<"P">>, <<"C","O","N","N">> >>, << <<"C","N">>, <<"C","O","N","N">> >>,
     << <<"C","O","N","N">>, <<"C","O","N","N">> >>, << <<"S","W">>, <<"S","W","I","T","C","H">> >>, << <<"X">>, <<"O","S","C">> >>, << <<"Y">>, <<"O","S","C">> >>}

\* The longest run of letters a refdes begins with, in upper case.
LeadingLetters(refdes) ==
    LET stop == FirstIndex({i \in 1..Len(refdes) : ~IsAlpha(refdes[i])})
    IN  Upper(IF stop = 0 THEN refdes ELSE SubSeq(refdes, 1, stop - 1))

\* C20: derived_type() is the type the prefix table gives for the whole of
\* the longest leading run of letters of the refdes, compared without regard
\* to case, and ACTIVE when the table does not hold that run (also when the
\* run is empty); is_passive() is true exactly when derived_type() is RES,
\* CAP, IND or FUSE.
C20_DerivedType ==
    last.op = "derived_type" =>
        /\ \A row \in PrefixTable :
              row[1] = LeadingLetters(last.arg.refdes) => last.result.derived_type = row[2]
        /\ (\A row \in PrefixTable : row[1] # LeadingLetters(last.arg.refdes)) =>
              last.result.derived_type = <<"A","C","T","I","V","E">>
        /\ last.result.is_passive
              <=> last.result.derived_type \in {<<"R","E","S">>, <<"C","A","P">>, <<"I","N","D">>, <<"F","U","S","E">>}

\* C20 witness: the refdes "led12A": the run of letters is "led", not "l",
\* and in lower case; it is a diode and not passive.
C20_Witness ==
    /\ last.op = "derived_type"
    /\ last.arg.refdes = <<"l","e","d","1","2","A">>
    /\ last.result.derived_type = <<"D","I","O","D","E">>
    /\ ~last.result.is_passive

(***************************************************************************)
(* C21                                                                     *)
(***************************************************************************)

\* C21: is_complex() is true for every component with more than 4 pins
\* whatever its pin names, and for a component with at most 4 pins it is true
\* exactly when some pin has a non-empty name that is not one of 1, 2, 3, 4,
\* A, K.
C21_IsComplex ==
    last.op = "is_complex" =>
        LET pins  == last.arg.component.pins
            named == \E i \in 1..Len(pins) :
                        pins[i].name \notin {<< >>, <<"1">>, <<"2">>, <<"3">>, <<"4">>, <<"A">>, <<"K">>}
        IN  IF Len(pins) > 4 THEN last.result = TRUE ELSE last.result = named

\* Five pins, each with a name of the simple set, make a complex component.
C21_Witness ==
    /\ last.op = "is_complex"
    /\ Len(last.arg.component.pins) = 5
    /\ \A i \in 1..5 : last.arg.component.pins[i].name \in {<<"1">>, <<"K">>}
    /\ last.result = TRUE

(***************************************************************************)
(* C22                                                                     *)
(***************************************************************************)

\* The names of NetNamePool that follow the power/ground naming convention:
\* a power word alone or with a suffix after "_", a name that begins with a
\* voltage rail, a name that ends in _GND, _VCC or _VDD.
ConventionNames ==
    {<<"G","N","D">>, <<"g","n","d">>, <<"P","G","N","D">>, <<"G","N","D","_","A">>, <<"G","N","D",NL>>, <<"V","S","S">>, <<"V","C","C">>, <<"V","D","D">>, <<"V","E","E">>, <<"V","B","A","T">>, <<"V","B","A","T","_","S","W">>,
     <<"N","E","T","_","G","N","D">>, <<"X","_","V","D","D">>, <<"3","V","3">>, <<"3",".","3","V">>, <<"+","5","V">>, <<"1","2","V">>, <<"1","V","8">>, <<"V","5">>, <<"+","V","1">>, <<".","V","3">>, <<"5","V","I","D","E","O">>}

\* C22: is_global() is true for every net whose name follows the power/ground
\* naming convention, even with a single member and a single page; true for
\* every net with more than 15 members or more than 3 pages whatever its
\* name; false for a net whose name does not follow the convention and that
\* has at most 15 members and at most 3 pages.
C22_IsGlobal ==
    last.op = "is_global" =>
        LET net == last.arg.net
        IN  last.result = (\/ net.name \in ConventionNames
                           \/ Len(net.members) > 15
                           \/ Cardinality(net.pages) > 3)

\* The net GND with one member on one page is global.
C22_Witness ==
    /\ last.op = "is_global"
    /\ last.arg.net.name = <<"G","N","D">>
    /\ Len(last.arg.net.members) = 1
    /\ Cardinality(last.arg.net.pages) = 1
    /\ last.result = TRUE

(***************************************************************************)
(* C28                                                                     *)
(***************************************************************************)

\* C28: refresh() is all-or-nothing: whichever provider call raises, the
\* cached components, nets and Atlas are those of one provider snapshot (or
\* the empty cache of the constructor), never the components of one snapshot
\* with the nets or the Atlas of another.
C28_RefreshAllOrNothing ==
    \/ (components = << >> /\ nets = << >> /\ net_page_map = EmptyMap)
    \/ \E k \in 1..Len(Schematics) : CacheIsSnapshot(k)

(***************************************************************************)
(* C29                                                                     *)
(***************************************************************************)

\* C29: in the output of get_context, the connection list of each connected
\* net names every member of the cached net and has as many references as
\* the cached net has members, unless the emitter truncates it: the filter
\* on primary or neighbor refdes removes no member, whether or not the
\* member's refdes is a cached component and whether or not it is passive.
C29_ContextKeepsMembers ==
    (last.op = "get_context" /\ ~last.raised /\ PrimaryRefdes(last.arg) # {}) =>
        LET lines == SplitLines(last.result)
        IN  \A n \in ConnectedNets(last.arg) :
               ~(is_global(n) /\ Len(n.members) > MaxGlobalRefs) =>
                  \E i \in NetHeaders(lines) :
                     /\ lines[i] = <<"N","E","T"," ">> \o n.name
                     /\ Len(ConLines(BlockBody(lines, i))) = 1
                     /\ LET refs == ConRefs(ConLines(BlockBody(lines, i))[1])
                        IN  /\ Len(refs) = Len(n.members)
                            /\ \A m \in Range(n.members) :
                                  \E ref \in Range(refs) :
                                     Before(ref, "(") = m[1] \o <<".">> \o m[2]

\* C29 witness: the context of U1 (and R1, which is not cached) in the
\* design whose net CLK has the member TP1.1, which no cached component
\* stands for, and whose nets SENSE and AGND have the passive C1: the
\* connection lists name TP1.1 and C1.
C29_Witness ==
    /\ last.op = "get_context"
    /\ last.arg = << rU1, rR1 >>
    /\ ~last.raised
    /\ CacheIsDesign(4)
    /\ rTP1 \notin CachedRefdes
    /\ rTP1 \in NeighborRefdes(last.arg)
    /\ rC1 \in NeighborRefdes(last.arg)
    /\ \E c \in Range(components) : c.refdes = rC1 /\ is_passive(c)
    /\ Contains(last.result, <<"T","P","1",".","1">>)
    /\ Contains(last.result, <<"C","1",".">>)

(***************************************************************************)
(* C30                                                                     *)
(***************************************************************************)

\* An invalidation is lost: the flag is clear and no call is running, yet a
\* mark_dirty() call was made that no fetch has read the source after.
LostInvalidation == ~dirty /\ last.pc = NoStatement /\ hist.pending

\* C30: without serialization, a mark_dirty() that lands after refresh() has
\* fetched and before refresh() returns is lost: when that refresh returns,
\* dirty is False, and a later query returns at the guard with what the cache
\* holds and fetches nothing; and an invalidation is lost only in that way,
\* so when no mark_dirty() comes while a call is running none is ever lost.
C30_UnserializedLosesInvalidation ==
    /\ [](LostInvalidation => (hist.window /\ hist.overlapped))
    /\ [][/\ (last.pc # NoStatement /\ last'.pc = NoStatement /\ ~last'.raised /\ hist.window)
               => (~dirty' /\ hist'.pending)
          /\ (LostInvalidation /\ last'.returned /\ last' # last /\ last'.pc = NoStatement)
               => (/\ provider' = provider
                   /\ cache' = cache
                   /\ last'.result = RaceResult(last'.op, Current))]_vars

\* C30 witness: the source was edited and mark_dirty() called while a
\* refresh was between its fetch and its return; afterwards get_all_pages
\* was served from the cache without a fetch, though the provider's snapshot
\* is not what the source holds.
C30_Witness ==
    /\ last.op = "get_all_pages"
    /\ last.returned
    /\ ~last.fetched
    /\ LostInvalidation
    /\ hist.window
    /\ provider.fetched # source
    /\ CacheIsSnapshot(provider.fetched)
    /\ last.result = get_all_pages_body(Schematics[provider.fetched].components,
                                        Schematics[provider.fetched].nets)

\* C23: on both adapters get_components() and get_nets() raise before any
\* fetch_raw_data() has returned, also after one that raised, and after one
\* that returned every call of either returns, with the list the first call
\* returned.
C23_GettersFollowFetch ==
    last.op \in {"get_components", "get_nets"} =>
        IF hist.succeeded
        THEN /\ ~last.raised
             /\ last.value = IF last.op = "get_components" THEN hist.components.value
                             ELSE hist.nets.value
        ELSE last.raised

\* C24: after a fetch_raw_data() that returns, the lists are those of an
\* adapter newly constructed on the source as it is now and fetched once:
\* nothing an earlier fetch read remains.
C24_FetchOverwrites ==
    (last.op = "fetch_raw_data" /\ ~last.raised) =>
        \E order \in SheetOrders :
            LET fresh == fetch_raw_data_of(Constructed(source), source, order).adapter
            IN  /\ get_components_of(provider) = get_components_of(fresh)
                /\ get_nets_of(provider) = get_nets_of(fresh)

\* C25: every member of every net an adapter returns names a component of
\* the list get_components() returns and the designator of one of its pins.
C25_MembersAreListedPins ==
    (last.op = "get_nets" /\ ~last.raised /\ ~get_components_of(provider).raised) =>
        LET listed == get_components_of(provider).value
        IN  \A n \in 1..Len(last.value) : \A m \in 1..Len(last.value[n].members) :
                \E c \in 1..Len(listed) :
                    /\ listed[c].refdes = last.value[n].members[m][1]
                    /\ \E p \in 1..Len(listed[c].pins) :
                          listed[c].pins[p].designator = last.value[n].members[m][2]

\* The designators of the records of the adapter's source whose
\* transformation raises.
SkippedDesignators ==
    IF provider.kind = "altium"
    THEN {provider._parsed_data.components[i].designator :
            i \in {j \in 1..Len(provider._parsed_data.components) :
                      altium_transform_raises(provider._parsed_data.components[j])}}
    ELSE UNION {{provider._parsed_sheets[s].value[i].reference :
                    i \in {j \in 1..Len(provider._parsed_sheets[s].value) :
                              kicad_transform_raises(provider._parsed_sheets[s].value[j])}} :
                s \in 1..Len(provider._parsed_sheets)}

\* C26: a record whose transformation raises does not end get_components(),
\* which returns, and neither the component list nor the net list names the
\* record.
C26_SkippedRecordIsOmitted ==
    (last.op = "get_components" /\ provider._ready) =>
        /\ ~last.raised
        /\ \A c \in 1..Len(last.value) : last.value[c].refdes \notin SkippedDesignators
        /\ LET listed == get_nets_of(provider)
           IN  ~listed.raised =>
                   \A n \in 1..Len(listed.value) : \A m \in 1..Len(listed.value[n].members) :
                       listed.value[n].members[m][1] \notin SkippedDesignators

\* The calls of the three tools.
ToolOps == {"get_schematic_index", "get_schematic_page", "get_schematic_context"}

\* The last tool call reached the Librarian: every call but a context
\* request with neither argument.
ReachedLibrarian ==
    last.op = "get_schematic_context" => (hist.component_ref # << >> \/ hist.net_name # << >>)

\* The refresh of the last tool call raised, whatever order glob gave.
RefreshRaised == \A order \in SheetOrders : refresh_on(source.project, order).raised

\* C27: no call of get_schematic_index, get_schematic_page or
\* get_schematic_context lets an exception out.  When the adapter or the
\* Librarian raises (no sheet file, no sheet that parses, a ValueError of
\* the emitter) the caller gets a text that begins with "Error generating
\* schematic"; a net that is not in the schematic and a request with
\* neither component_ref nor net_name give a text that begins with "Error:".
C27_ToolsReturnErrorText ==
    last.op \in ToolOps =>
        /\ ~last.raised
        /\ last.value # ValueError
        /\ (ReachedLibrarian /\ RefreshRaised) =>
               /\ StartsWith(last.value, <<"E","r","r","o","r"," ","g","e","n","e","r","a","t","i","n","g"," ","s","c","h","e","m","a","t","i","c"," ">>)
               /\ Contains(last.value, FetchMessage(refresh_on(source.project, << pgA, pgB >>).error))
        /\ (last.op = "get_schematic_page" /\ ~RefreshRaised
              /\ \A order \in SheetOrders :
                    LET r == refresh_on(source.project, order).value
                    IN  get_page_body(r.components, r.nets, r.net_page_map, hist.page_name)
                            = ValueError) =>
               last.value = <<"E","r","r","o","r"," ","g","e","n","e","r","a","t","i","n","g"," ","s","c","h","e","m","a","t","i","c"," ","p","a","g","e"," ","D","S","L",":"," ">> \o IntMessage
                                \o << NL, NL >> \o <<"A","v","a","i","l","a","b","l","e"," ","p","a","g","e","s",":"," ","U","s","e"," ","g","e","t","_","s","c","h","e","m","a","t","i","c","_","i","n","d","e","x"," ","t","o"," ","s","e","e"," ","a","l","l"," ","p","a","g","e","s",".">>
        /\ (last.op = "get_schematic_context" /\ hist.component_ref = << >>) =>
               /\ hist.net_name = << >> =>
                      last.value = <<"E","r","r","o","r",":"," ","P","l","e","a","s","e"," ","s","p","e","c","i","f","y"," ","e","i","t","h","e","r"," ","c","o","m","p","o","n","e","n","t","_","r","e","f"," ","o","r"," ","n","e","t","_","n","a","m","e">>
               /\ (hist.net_name # << >> /\ ~RefreshRaised
                     /\ \A i \in 1..Len(refresh_on(source.project, << pgA, pgB >>).value.nets) :
                           refresh_on(source.project, << pgA, pgB >>).value.nets[i].name
                               # hist.net_name) =>
                      last.value = <<"E","r","r","o","r",":"," ","N","e","t"," ","'">> \o hist.net_name \o <<"'"," ","n","o","t"," ","f","o","u","n","d"," ","i","n"," ","s","c","h","e","m","a","t","i","c">>

\* C27 happens: with no sheet that parses in the project directory,
\* get_schematic_page returned the ValueError of the adapter as a text.
C27_Witness ==
    /\ last.op = "get_schematic_page"
    /\ source.project.sheets[pgA] = Unreadable
    /\ source.project.sheets[pgB] = Absent
    /\ ~last.raised
    /\ last.value = <<"E","r","r","o","r"," ","g","e","n","e","r","a","t","i","n","g"," ","s","c","h","e","m","a","t","i","c"," ","p","a","g","e"," ","D","S","L",":"," ","F","a","i","l","e","d"," ","t","o"," ","p","a","r","s","e"," ","a","n","y"," ",".","k","i","c","a","d","_","s","c","h"," ","f","i","l","e","s"," ","i","n"," ","/","p">>
                        \o << NL, NL >> \o <<"A","v","a","i","l","a","b","l","e"," ","p","a","g","e","s",":"," ","U","s","e"," ","g","e","t","_","s","c","h","e","m","a","t","i","c","_","i","n","d","e","x"," ","t","o"," ","s","e","e"," ","a","l","l"," ","p","a","g","e","s",".">>

====
